---- MODULE Spec2Model ----
(***************************************************************************)
(* State-machine model of the portfolio risk and execution engine of       *)
(* astrbot_plugin_cryptocurrency (src/main.py, src/investment_utils.py).   *)
(*                                                                         *)
(* Money, prices, amounts, percentages and leverages are exact rationals   *)
(* <<numerator, denominator>> in lowest terms (denominator > 0); <<1, 0>>  *)
(* is float('inf').  The asyncio event loop is modelled by the variable    *)
(* running: a coroutine that holds the loop runs alone until it reaches    *)
(* an await that suspends it (a price fetch, the decision oracle, the      *)
(* notification sink); only then may another coroutine take a step.        *)
(***************************************************************************)
EXTENDS Integers, Sequences, FiniteSets, TLC

\* ------------------------------------------------------------------ bounds
NumCoins == 2
MaxPlanLen == 3
MaxTicks == 3
MaxStarts == 1
MaxGateTicks == 5
MaxRoundTrips == 3

Coins == 1..NumCoins
None == <<>>

\* ------------------------------------------------------- exact arithmetic
Abs(x) == IF x < 0 THEN -x ELSE x

RECURSIVE GCD(_, _)
GCD(a, b) == IF b = 0 THEN a ELSE GCD(b, a % b)

Norm(n, d) ==
    IF d = 0 THEN <<1, 0>>
    ELSE LET s == IF d < 0 THEN -1 ELSE 1
             g == GCD(Abs(n), Abs(d))
         IN  <<(s * n) \div g, (s * d) \div g>>

Q(n) == <<n, 1>>
\* an amount of n USD; money is counted in units of 10000 USD, a change of
\* unit under which every formula of the program is invariant
Usd(n) == Norm(n, 10000)
Zero == <<0, 1>>
One == <<1, 1>>
Hundred == <<100, 1>>
Inf == <<1, 0>>

QNeg(a) == <<-a[1], a[2]>>
QAdd(a, b) ==
    LET g == GCD(a[2], b[2])
    IN  Norm(a[1] * (b[2] \div g) + b[1] * (a[2] \div g), (a[2] \div g) * b[2])
QSub(a, b) == QAdd(a, QNeg(b))
QMul(a, b) ==
    LET g1 == GCD(Abs(a[1]), b[2])
        g2 == GCD(Abs(b[1]), a[2])
    IN  IF g1 = 0 \/ g2 = 0 THEN Norm(a[1] * b[1], a[2] * b[2])
        ELSE <<(a[1] \div g1) * (b[1] \div g2), (a[2] \div g2) * (b[2] \div g1)>>
QInv(a) == Norm(a[2], a[1])
QDiv(a, b) == QMul(a, QInv(b))
QLe(a, b) == a[1] * b[2] <= b[1] * a[2]
QLt(a, b) == a[1] * b[2] < b[1] * a[2]
QIsZero(a) == a[1] = 0

RECURSIVE QSum(_, _)
QSum(f, S) ==
    IF S = {} THEN Zero
    ELSE LET x == CHOOSE y \in S : TRUE
         IN  QAdd(f[x], QSum(f, S \ {x}))

\* ------------------------------------------- src/investment_utils.py
\* A missing dictionary key is None; prices_data is a function from Coins
\* to a price or None (the coin is absent from the fetched map).
Long == "long"
Short == "short"

\* a faulty variant of calculate_futures_pnl: the result is multiplied by the
\* leverage
PnlTimesLeverage(position, current_price) ==
    LET price_diff == QSub(current_price, position.entry_price)
    IN  QMul(QMul(IF position.side = "short" THEN QNeg(price_diff) ELSE price_diff,
                  position.amount),
             position.leverage)

calculate_futures_pnl(position, current_price) ==
    LET price_diff == QSub(current_price, position.entry_price)
    IN  QMul(IF position.side = Short THEN QNeg(price_diff) ELSE price_diff,
             position.amount)

get_maintenance_margin_rate(position_value) ==
    IF QLe(position_value, Usd(50000)) THEN <<1, 200>>
    ELSE IF QLe(position_value, Usd(200000)) THEN <<1, 125>>
    ELSE <<3, 250>>

\* 1 - maintenance_margin_rate(0.005) - liquidation_fee_rate(0.0005)
LiquidationFactor == <<1989, 2000>>

\* a faulty variant of calculate_liquidation_price: the liquidation fee is
\* left out
LiquidationPriceWithoutFee(entry_price, leverage, side) ==
    IF QIsZero(leverage) THEN (IF side = Long THEN Inf ELSE Zero)
    ELSE IF side = Long
         THEN QMul(entry_price, QSub(One, QDiv(<<199, 200>>, leverage)))
         ELSE QMul(entry_price, QAdd(One, QDiv(<<199, 200>>, leverage)))

calculate_liquidation_price(entry_price, leverage, side) ==
    IF QIsZero(leverage) THEN (IF side = Long THEN Inf ELSE Zero)
    ELSE IF side = Long
         THEN QMul(entry_price, QSub(One, QDiv(LiquidationFactor, leverage)))
         ELSE QMul(entry_price, QAdd(One, QDiv(LiquidationFactor, leverage)))

\* pos.get('current_price', pos['entry_price'])
LastKnownPrice(pos) ==
    IF pos.current_price = None THEN pos.entry_price ELSE pos.current_price

\* a faulty variant of the default of line 64: the entry price
PriceOrEntry(prices_data, coin_id, pos) ==
    IF prices_data[coin_id] = None THEN pos.entry_price ELSE prices_data[coin_id]

\* prices_data.get(coin_id, {}).get('usd', <last known price>)
PriceOrLast(prices_data, coin_id, pos) ==
    IF prices_data[coin_id] = None THEN LastKnownPrice(pos) ELSE prices_data[coin_id]

Held(positions) == {c \in Coins : positions[c] # None}

\* a faulty variant of calculate_total_assets: margin_used is left out of the
\* futures equity
TotalAssetsWithoutMargin(session, prices_data) ==
    QAdd(session.cash,
         QAdd(QSum([c \in Coins |->
                      IF session.spot_positions[c] = None THEN Zero
                      ELSE QMul(session.spot_positions[c].amount,
                                PriceOrLast(prices_data, c, session.spot_positions[c]))],
                   Coins),
              QSum([c \in Coins |->
                      IF session.futures_positions[c] = None THEN Zero
                      ELSE calculate_futures_pnl(session.futures_positions[c],
                                PriceOrLast(prices_data, c, session.futures_positions[c]))],
                   Coins)))

calculate_total_assets(session, prices_data) ==
    LET spot_value ==
            QSum([c \in Coins |->
                    IF session.spot_positions[c] = None THEN Zero
                    ELSE QMul(session.spot_positions[c].amount,
                              PriceOrLast(prices_data, c, session.spot_positions[c]))],
                 Coins)
        total_futures_pnl ==
            QSum([c \in Coins |->
                    IF session.futures_positions[c] = None THEN Zero
                    ELSE calculate_futures_pnl(session.futures_positions[c],
                              PriceOrLast(prices_data, c, session.futures_positions[c]))],
                 Coins)
    IN  QAdd(QAdd(session.cash, spot_value), QAdd(session.margin_used, total_futures_pnl))

calculate_maintenance_margin(position, current_price) ==
    LET position_value == QMul(position.amount, current_price)
    IN  QMul(position_value, get_maintenance_margin_rate(position_value))

calculate_margin_ratio(position, current_price) ==
    LET maintenance_margin_required == calculate_maintenance_margin(position, current_price)
    IN  IF QLe(maintenance_margin_required, Zero) THEN Inf
        ELSE QDiv(position.margin, maintenance_margin_required)

\* a faulty variant of the check: the liquidation price is not looked at
MarginRatioOnly(position, current_price) ==
    QLe(calculate_margin_ratio(position, current_price), One)

check_position_risk(position, current_price) ==
    \/ QLe(calculate_margin_ratio(position, current_price), One)
    \/ position.side = Long /\ QLe(current_price, position.liquidation_price)
    \/ position.side = Short /\ QLe(position.liquidation_price, current_price)

\* ------------------------------------------------------------- state
VARIABLES
    investment_sessions, \* the user's entry of self.investment_sessions: an object id, 0 when absent
    heap,                \* the session dictionaries, by object identity
    now,                 \* time.time()
    running,             \* the coroutine holding the event loop (Nobody when all are suspended)
    cmd,                 \* the cry_fight command coroutine
    tick,                \* run_periodic_updates / update_all_sessions
    tasks,               \* the trigger_ai_rebalance tasks, in order of creation
    monitor_removed,     \* history: the ids of the positions the monitor removed
    parser,              \* a call of AIResponseParser.parse: its arguments and what it returns
    sessions_file        \* the user's entry of the file of sessions: a portfolio, or None

engine == <<investment_sessions, heap, now, running, cmd, tick, tasks, monitor_removed>>
vars == <<investment_sessions, heap, now, running, cmd, tick, tasks, monitor_removed,
          parser, sessions_file>>

Nobody == 0
Driver == -1
Command == -2

\* self.cooldown_period, counted in steps of the model's clock (one step
\* per run of the monitor): a rebalance is dispatched on the second pass
\* after the session starts.
CooldownPeriod == 1

\* ------------------------------------------------------------ inputs
InitialFundsSet == {Usd(10000)}
PriceSet == {Usd(40000), Usd(50000)}
PriceResults == PriceSet \cup {None}

\* a batched get_price result for the requested ids: any subset may be missing
PriceMaps(ids) ==
    {pm \in [Coins -> PriceResults] : \A c \in Coins \ ids : pm[c] = None}


\* the allocations the strategy analysis may suggest
SpotAlloc(coin) == [coin |-> coin, percentage |-> Q(40)]
FuturesAlloc(leverage, side) ==
    [coin |-> 1, percentage |-> Q(10), leverage |-> leverage, side |-> side]

Allocations ==
    {[spot |-> <<>>, futures |-> <<>>],
     [spot |-> <<SpotAlloc(2)>>, futures |-> <<FuturesAlloc(Q(5), Long)>>],
     [spot |-> <<>>, futures |-> <<FuturesAlloc(Q(5), Long)>>],
     [spot |-> <<>>, futures |-> <<FuturesAlloc(Q(2), Short)>>],
     [spot |-> <<>>, futures |-> <<FuturesAlloc(Q(2), Long), FuturesAlloc(Q(5), Long)>>],
     [spot |-> <<>>, futures |-> <<FuturesAlloc(Q(5), Long),
                                   [FuturesAlloc(Q(2), Long) EXCEPT !.coin = 2]>>]}

\* ----------------------------------------- src/main.py: cry_fight start
NewSession(initial_funds, t) ==
    [initial_funds |-> initial_funds, current_funds |-> initial_funds,
     cash |-> initial_funds, margin_used |-> Zero,
     spot_positions |-> [c \in Coins |-> None],
     futures_positions |-> [c \in Coins |-> None],
     pending_orders |-> <<>>,
     last_ai_update_time |-> t,
     suggested_allocation |-> None]

AllocCoins(allocations) ==
    {allocations.spot[k].coin : k \in DOMAIN allocations.spot}
        \cup {allocations.futures[k].coin : k \in DOMAIN allocations.futures}

\* Every position dictionary carries an id standing for its object identity:
\* <<kind, creator, index>>, creator < 0 for the start command, > 0 for a task.
\* the loop of lines 856-865; st is [positions, cash_used]
RECURSIVE SpotAllocLoop(_, _, _, _, _, _)
SpotAllocLoop(st, list, k, prices_data, initial_funds, tag) ==
    IF k > Len(list) THEN st
    ELSE LET pos_info == list[k]
             price == prices_data[pos_info.coin]
             investment_amount == QMul(initial_funds, QDiv(pos_info.percentage, Hundred))
         IN  IF price = None \/ QIsZero(price)
             THEN SpotAllocLoop(st, list, k + 1, prices_data, initial_funds, tag)
             ELSE SpotAllocLoop(
                    [positions |-> [st.positions EXCEPT ![pos_info.coin] =
                        [amount |-> QDiv(investment_amount, price), entry_price |-> price,
                         current_price |-> price, value |-> investment_amount, pnl |-> Zero,
                         id |-> <<"s", tag, k>>]],
                     cash_used |-> QAdd(st.cash_used, investment_amount)],
                    list, k + 1, prices_data, initial_funds, tag)

\* the loop of lines 868-881; st is [positions, margin_used]
RECURSIVE FuturesAllocLoop(_, _, _, _, _, _)
FuturesAllocLoop(st, list, k, prices_data, initial_funds, tag) ==
    IF k > Len(list) THEN st
    ELSE LET pos_info == list[k]
             price == prices_data[pos_info.coin]
             margin == QMul(initial_funds, QDiv(pos_info.percentage, Hundred))
             position_value == QMul(margin, pos_info.leverage)
         IN  IF price = None \/ QIsZero(price)
             THEN FuturesAllocLoop(st, list, k + 1, prices_data, initial_funds, tag)
             ELSE FuturesAllocLoop(
                    [positions |-> [st.positions EXCEPT ![pos_info.coin] =
                        [amount |-> QDiv(position_value, price), entry_price |-> price,
                         current_price |-> price, value |-> position_value,
                         margin |-> margin, leverage |-> pos_info.leverage,
                         side |-> pos_info.side,
                         liquidation_price |->
                            calculate_liquidation_price(price, pos_info.leverage, pos_info.side),
                         pnl |-> Zero, id |-> <<"f", tag, k>>]],
                     margin_used |-> QAdd(st.margin_used, margin)],
                    list, k + 1, prices_data, initial_funds, tag)

\* create_initial_positions after the price fetch returned prices_data
\* (None: the fetch raised; a map without any price: "if not prices_data")
create_initial_positions(session, prices_data, tag) ==
    LET allocations == session.suggested_allocation
        initial_funds == session.initial_funds
    IN  IF prices_data = None
        THEN [session EXCEPT !.cash = initial_funds,
                             !.spot_positions = [c \in Coins |-> None],
                             !.futures_positions = [c \in Coins |-> None]]
        ELSE IF \A c \in Coins : prices_data[c] = None
        THEN [session EXCEPT !.cash = initial_funds]
        ELSE LET sp == SpotAllocLoop([positions |-> session.spot_positions, cash_used |-> Zero],
                                     allocations.spot, 1, prices_data, initial_funds, tag)
                 fu == FuturesAllocLoop([positions |-> session.futures_positions,
                                         margin_used |-> Zero],
                                        allocations.futures, 1, prices_data, initial_funds, tag)
             IN  [session EXCEPT
                    !.spot_positions = sp.positions,
                    !.futures_positions = fu.positions,
                    !.cash = QSub(QSub(initial_funds, sp.cash_used), fu.margin_used),
                    !.margin_used = fu.margin_used,
                    !.current_funds = initial_funds]

\* ------------------------------------------------ object references
\* A coroutine suspended inside a handler holds the position dictionary it
\* read before the await (local.pos).  While that dictionary is still the
\* one stored under its coin the live value is read; once it has been
\* removed from the map, the holder keeps the detached object as it was.
IsLive(positions, coin, pos) ==
    pos # None /\ positions[coin] # None /\ positions[coin].id = pos.id

Deref(positions, coin, pos) ==
    IF IsLive(positions, coin, pos) THEN positions[coin] ELSE pos

\* the holders of a detached (or detached and then modified) object see it
Refresh(local, o, recs) ==
    IF local.session = o /\ local.pos # None /\ \E r \in recs : r.id = local.pos.id
    THEN [local EXCEPT !.pos = CHOOSE r \in recs : r.id = local.pos.id]
    ELSE local

RefreshTasks(ts, o, recs) == [t \in DOMAIN ts |-> Refresh(ts[t], o, recs)]

\* ------------------------------- src/main.py: _close_futures_position
\* before the await of the price: the position must exist with that side
CloseRejected(session, coin, side) ==
    \/ session.futures_positions[coin] = None
    \/ session.futures_positions[coin].side # side

\* after the await; fetched is the price or None. status "exc": the del
\* raised KeyError after cash and margin_used were already updated.
CloseResume(session, coin, held, fetched) ==
    LET pos == Deref(session.futures_positions, coin, held)
        price == IF fetched = None THEN pos.current_price ELSE fetched
        pnl == calculate_futures_pnl(pos, price)
        cash_returned == QAdd(pos.margin, pnl)
        credited == [session EXCEPT !.cash = QAdd(session.cash, cash_returned),
                                    !.margin_used = QSub(session.margin_used, pos.margin)]
    IN  IF session.futures_positions[coin] = None
        THEN [status |-> "exc", session |-> credited, removed |-> {}]
        ELSE [status |-> "ok",
              session |-> [credited EXCEPT !.futures_positions[coin] = None],
              removed |-> {session.futures_positions[coin]}]

\* ------------------------------------ src/main.py: update_all_sessions
\* the pending orders of a portfolio whose coin has no open futures position
OrphanOrders(session) ==
    {session.pending_orders[k] : k \in {j \in DOMAIN session.pending_orders :
        session.futures_positions[session.pending_orders[j].coin] = None}}

\* liquidated: the positions this pass liquidated (liquidated_coins, by identity)
\* liquidated_coins: the list liquidated_coins of lines 935 and 948
\* orphans: the orders that had no position when the pass began
\* fired: the indices of the orders that fired and whose close went through
IdleTick == [pc |-> "idle", session |-> 0, prices_data |-> None, ids |-> {},
             orders |-> <<>>, i |-> 0, triggered |-> <<>>, pos |-> None,
             liquidated |-> {}, liquidated_coins |-> {}, orphans |-> {}, fired |-> {}]

\* lines 936-952: refresh, liquidation check and removal of liquidated positions
Liquidated(session, prices_data) ==
    {c \in Coins : /\ session.futures_positions[c] # None
                   /\ prices_data[c] # None
                   /\ check_position_risk(session.futures_positions[c], prices_data[c])}

\* a faulty variant of the pass: lines 951-952 are left out, so liquidated
\* positions give up their margin and stay in the map
LiquidationPassKeepsPositions(session, prices_data) ==
    LET liq == Liquidated(session, prices_data)
        fp == session.futures_positions
    IN  [session EXCEPT
            !.margin_used = QSub(session.margin_used,
                                 QSum([c \in Coins |-> IF c \in liq THEN fp[c].margin ELSE Zero],
                                      Coins)),
            !.futures_positions =
                [c \in Coins |->
                    IF fp[c] # None /\ prices_data[c] # None
                    THEN IF c \in liq THEN [fp[c] EXCEPT !.current_price = prices_data[c]]
                         ELSE [fp[c] EXCEPT !.current_price = prices_data[c],
                                            !.pnl = calculate_futures_pnl(fp[c], prices_data[c])]
                    ELSE fp[c]]]

LiquidationPass(session, prices_data) ==
    LET liq == Liquidated(session, prices_data)
        fp == session.futures_positions
    IN  [session EXCEPT
            !.margin_used = QSub(session.margin_used,
                                 QSum([c \in Coins |-> IF c \in liq THEN fp[c].margin ELSE Zero],
                                      Coins)),
            !.futures_positions =
                [c \in Coins |->
                    IF c \in liq THEN None
                    ELSE IF fp[c] # None /\ prices_data[c] # None
                    THEN [fp[c] EXCEPT !.current_price = prices_data[c],
                                       !.pnl = calculate_futures_pnl(fp[c], prices_data[c])]
                    ELSE fp[c]]]

LiquidatedRecords(session, prices_data) ==
    {[session.futures_positions[c] EXCEPT !.current_price = prices_data[c]] :
        c \in Liquidated(session, prices_data)}

\* lines 1048-1062: does the order fire against pos at current_price
OrderTriggered(order, pos, current_price) ==
    IF order.type = "STOP_LOSS"
    THEN \/ pos.side = Long /\ QLe(current_price, order.price)
         \/ pos.side = Short /\ QLe(order.price, current_price)
    ELSE \/ pos.side = Long /\ QLe(order.price, current_price)
         \/ pos.side = Short /\ QLe(current_price, order.price)

\* lines 1083-1084: del session['pending_orders'][i] for the recorded indices,
\* from the back; raised when an index is out of range (IndexError)
RemoveAt(list, k) == [j \in 1..(Len(list) - 1) |-> IF j < k THEN list[j] ELSE list[j + 1]]

RECURSIVE DeleteTriggered(_, _)
DeleteTriggered(list, triggered) ==
    IF triggered = <<>> THEN [raised |-> FALSE, list |-> list]
    ELSE LET k == triggered[Len(triggered)]
         IN  IF k > Len(list) THEN [raised |-> TRUE, list |-> list]
             ELSE DeleteTriggered(RemoveAt(list, k), SubSeq(triggered, 1, Len(triggered) - 1))

\* line 960
CooldownElapsed(session, t) == t - session.last_ai_update_time > CooldownPeriod

NewTask(o) ==
    [pc |-> "oracle", session |-> o, plan |-> <<>>, i |-> 0,
     session_backup |-> None, temp_session_state |-> None, pos |-> None,
     before |-> None, applied |-> 0, error |-> None, at |-> now]

IdsOfRecords(recs) == {r.id : r \in recs}

\* run_periodic_updates wakes up at time t; update_all_sessions up to the
\* price fetch
WakeUp(t) ==
    /\ running = Nobody /\ tick.pc = "idle"
    /\ now' = t
    /\ LET ids == IF investment_sessions = 0 THEN {}
                  ELSE Held(heap[investment_sessions].spot_positions)
                         \cup Held(heap[investment_sessions].futures_positions)
       IN  tick' = IF ids = {} THEN IdleTick
                   ELSE [IdleTick EXCEPT !.pc = "fetch", !.ids = ids,
                                         !.orphans = OrphanOrders(heap[investment_sessions])]
    /\ UNCHANGED <<investment_sessions, heap, running, cmd, tasks, monitor_removed>>

TickStart == now < MaxTicks /\ WakeUp(now + 1)

\* the same wake-up once the clock has reached MaxTicks, where the model stops
\* counting: now = MaxTicks stands for that time or any later one, so a
\* cooldown the model sees elapsed has elapsed
TickStartLate == now = MaxTicks /\ WakeUp(now)

\* the same wake-up with the clock counting on to MaxGateTicks
TickStartOn == now >= MaxTicks /\ now < MaxGateTicks /\ WakeUp(now + 1)

\* the fetch failed or returned nothing: lines 924-929
TickNoPrices ==
    /\ running = Nobody /\ tick.pc = "fetch"
    /\ tick' = IdleTick
    /\ UNCHANGED <<investment_sessions, heap, now, running, cmd, tasks, monitor_removed>>

\* the fetch returned prices_data: the liquidation pass, lines 931-952
TickPrices(prices_data) ==
    /\ running = Nobody /\ tick.pc = "fetch"
    /\ \E c \in Coins : prices_data[c] # None
    /\ IF investment_sessions = 0
       THEN /\ tick' = IdleTick
            /\ UNCHANGED <<heap, running, tasks, monitor_removed>>
       ELSE LET o == investment_sessions
                recs == LiquidatedRecords(heap[o], prices_data)
                after == LiquidationPass(heap[o], prices_data)
            IN  /\ heap' = [heap EXCEPT ![o] = after]
                /\ monitor_removed' = monitor_removed \cup IdsOfRecords(recs)
                /\ tasks' = RefreshTasks(tasks, o, recs)
                /\ tick' = [IdleTick EXCEPT !.pc = "orders", !.session = o,
                                            !.prices_data = prices_data,
                                            !.orders = after.pending_orders, !.i = 1,
                                            !.liquidated = IdsOfRecords(recs),
                                            !.liquidated_coins =
                                                Liquidated(heap[o], prices_data),
                                            !.orphans = tick.orphans]
                /\ running' = Driver
    /\ UNCHANGED <<investment_sessions, now, cmd>>

\* _check_pending_orders: one iteration of the loop of lines 1031-1080,
\* up to the await inside _close_futures_position when the order fires
TickOrder ==
    /\ running = Driver /\ tick.pc = "orders" /\ tick.i <= Len(tick.orders)
    /\ LET order == tick.orders[tick.i]
           current_price == tick.prices_data[order.coin]
           pos == heap[tick.session].futures_positions[order.coin]
       IN  IF current_price = None
           THEN /\ tick' = [tick EXCEPT !.i = @ + 1]
                /\ UNCHANGED running
           ELSE IF pos = None
           THEN /\ tick' = [tick EXCEPT !.i = @ + 1, !.triggered = Append(@, tick.i)]
                /\ UNCHANGED running
           ELSE IF OrderTriggered(order, pos, current_price)
           THEN /\ tick' = [tick EXCEPT !.pc = "close_price", !.pos = pos]
                /\ running' = Nobody
           ELSE /\ tick' = [tick EXCEPT !.i = @ + 1]
                /\ UNCHANGED running
    /\ UNCHANGED <<investment_sessions, heap, now, cmd, tasks, monitor_removed>>

\* the conditional close resumes with the fetched price (or None), lines 1417-1423
TickCloseResume(fetched) ==
    /\ running = Nobody /\ tick.pc = "close_price"
    /\ LET o == tick.session
           coin == tick.orders[tick.i].coin
           r == CloseResume(heap[o], coin, tick.pos, fetched)
       IN  /\ heap' = [heap EXCEPT ![o] = r.session]
           /\ tasks' = RefreshTasks(tasks, o, r.removed)
           /\ monitor_removed' = monitor_removed \cup IdsOfRecords(r.removed)
           /\ tick' = IF r.status = "exc" THEN IdleTick
                      ELSE [tick EXCEPT !.pc = "notify", !.pos = None,
                                        !.fired = @ \cup {tick.i}]
    /\ UNCHANGED <<investment_sessions, now, running, cmd>>

\* await self.context.send_message returned (line 1078) ...
TickNotified ==
    /\ running = Nobody /\ tick.pc = "notify"
    /\ tick' = [tick EXCEPT !.pc = "orders", !.i = @ + 1, !.triggered = Append(@, tick.i)]
    /\ running' = Driver
    /\ UNCHANGED <<investment_sessions, heap, now, cmd, tasks, monitor_removed>>

\* ... or raised: the exception leaves _check_pending_orders (line 963)
TickNotifyFailed ==
    /\ running = Nobody /\ tick.pc = "notify"
    /\ tick' = IdleTick
    /\ UNCHANGED <<investment_sessions, heap, now, running, cmd, tasks, monitor_removed>>

\* lines 1083-1084 and 958-962
TickFinish ==
    /\ running = Driver /\ tick.pc = "orders" /\ tick.i > Len(tick.orders)
    /\ LET o == tick.session
           left == DeleteTriggered(heap[o].pending_orders, tick.triggered)
       IN  IF left.raised
           THEN /\ heap' = [heap EXCEPT ![o].pending_orders = left.list]
                /\ UNCHANGED tasks
           ELSE LET pruned == [heap[o] EXCEPT !.pending_orders = left.list]
                    valued == [pruned EXCEPT
                                 !.current_funds = calculate_total_assets(pruned, tick.prices_data)]
                IN  IF CooldownElapsed(valued, now)
                    THEN /\ heap' = [heap EXCEPT ![o] =
                                        [valued EXCEPT !.last_ai_update_time = now]]
                         /\ tasks' = Append(tasks, NewTask(o))
                    ELSE /\ heap' = [heap EXCEPT ![o] = valued]
                         /\ UNCHANGED tasks
    /\ tick' = IdleTick
    /\ running' = Nobody
    /\ UNCHANGED <<investment_sessions, now, cmd, monitor_removed>>

\* ----------------------------------------- src/main.py: cry_fight
IdleCmd == [pc |-> "idle", session |-> 0, starts |-> 0]

CmdStart(initial_funds) ==
    /\ running = Nobody /\ cmd.pc = "idle" /\ cmd.starts < MaxStarts
    /\ heap' = Append(heap, NewSession(initial_funds, now))
    /\ investment_sessions' = Len(heap) + 1
    /\ cmd' = [cmd EXCEPT !.pc = "strategy", !.session = Len(heap) + 1, !.starts = @ + 1]
    /\ UNCHANGED <<now, running, tick, tasks, monitor_removed>>

\* the same command once more, after MaxStarts starts: the user starts a new
\* simulation after finishing one
CmdStartAgain(initial_funds) ==
    /\ running = Nobody /\ cmd.pc = "idle"
    /\ cmd.starts >= MaxStarts /\ cmd.starts < MaxStarts + 1
    /\ heap' = Append(heap, NewSession(initial_funds, now))
    /\ investment_sessions' = Len(heap) + 1
    /\ cmd' = [cmd EXCEPT !.pc = "strategy", !.session = Len(heap) + 1, !.starts = @ + 1]
    /\ UNCHANGED <<now, running, tick, tasks, monitor_removed>>

\* get_ai_strategy_analysis returned (allocations = None: it failed and left
\* no suggested_allocation); create_initial_positions up to its price fetch
CmdStrategy(allocations) ==
    /\ running = Nobody /\ cmd.pc = "strategy"
    /\ LET o == cmd.session IN
       IF allocations = None \/ AllocCoins(allocations) = {}
       THEN /\ heap' = [heap EXCEPT ![o].suggested_allocation = allocations,
                                    ![o].cash = heap[o].initial_funds]
            /\ cmd' = [cmd EXCEPT !.pc = "idle", !.session = 0]
       ELSE /\ heap' = [heap EXCEPT ![o].suggested_allocation = allocations]
            /\ cmd' = [cmd EXCEPT !.pc = "alloc_price"]
    /\ UNCHANGED <<investment_sessions, now, running, tick, tasks, monitor_removed>>

CmdAllocate(prices_data) ==
    /\ running = Nobody /\ cmd.pc = "alloc_price"
    /\ prices_data = None
          \/ prices_data \in PriceMaps(AllocCoins(heap[cmd.session].suggested_allocation))
    /\ LET o == cmd.session IN
       heap' = [heap EXCEPT ![o] = create_initial_positions(heap[o], prices_data, 0 - cmd.starts)]
    /\ cmd' = [cmd EXCEPT !.pc = "idle", !.session = 0]
    /\ UNCHANGED <<investment_sessions, now, running, tick, tasks, monitor_removed>>

\* cry_fight finish: settle_investment awaits prices and the analysis ...
CmdFinish ==
    /\ running = Nobody /\ cmd.pc = "idle" /\ investment_sessions # 0
    /\ cmd' = [cmd EXCEPT !.pc = "settle", !.session = investment_sessions]
    /\ UNCHANGED <<investment_sessions, heap, now, running, tick, tasks, monitor_removed>>

\* ... and then the entry is deleted (line 557)
CmdSettled ==
    /\ running = Nobody /\ cmd.pc = "settle"
    /\ investment_sessions' = 0
    /\ cmd' = [cmd EXCEPT !.pc = "idle", !.session = 0]
    /\ UNCHANGED <<heap, now, running, tick, tasks, monitor_removed>>

\* --------------------------------------- src/main.py: action validation
ACTION_REQUIREMENTS(action_type) ==
    CASE action_type = "BUY_SPOT" -> {"coin", "percentage_of_cash"}
      [] action_type = "SELL_SPOT" -> {"coin", "percentage_of_holding"}
      [] action_type \in {"OPEN_LONG", "OPEN_SHORT"} -> {"coin", "percentage_of_cash", "leverage"}
      [] action_type \in {"CLOSE_LONG", "CLOSE_SHORT"} -> {"coin"}
      [] action_type = "ADD_MARGIN" -> {"coin", "percentage_of_cash"}
      [] action_type = "REDUCE_MARGIN" -> {"coin", "percentage_of_margin"}
      [] action_type \in {"INCREASE_LEVERAGE", "DECREASE_LEVERAGE"} -> {"coin", "new_leverage"}
      [] action_type = "SET_STOP_LOSS" -> {"coin", "stop_price"}
      [] action_type = "SET_TAKE_PROFIT" -> {"coin", "target_price"}
      [] OTHER -> {}

HandledActions ==
    {"BUY_SPOT", "SELL_SPOT", "OPEN_LONG", "OPEN_SHORT", "CLOSE_LONG", "CLOSE_SHORT",
     "ADD_MARGIN", "REDUCE_MARGIN", "INCREASE_LEVERAGE", "DECREASE_LEVERAGE",
     "SET_STOP_LOSS", "SET_TAKE_PROFIT"}

\* a faulty variant of _validate_action_parameters: line 1232 is left out
ParameterErrorsButLeverage(action) ==
    \/ \E param \in ACTION_REQUIREMENTS(action.action) : param \notin DOMAIN action
    \/ \E param_name \in {"percentage_of_cash", "percentage_of_holding", "percentage_of_margin"}
                            \cap DOMAIN action :
          ~(QLe(Zero, action[param_name]) /\ QLe(action[param_name], Hundred))

\* TRUE when _validate_action_parameters returns errors
ParameterErrors(action) ==
    \/ \E param \in ACTION_REQUIREMENTS(action.action) : param \notin DOMAIN action
    \/ \E param_name \in {"percentage_of_cash", "percentage_of_holding", "percentage_of_margin"}
                            \cap DOMAIN action :
          ~(QLe(Zero, action[param_name]) /\ QLe(action[param_name], Hundred))
    \/ "leverage" \in DOMAIN action
          /\ ~(QLe(One, action.leverage) /\ QLe(action.leverage, Hundred))

\* action.get('percentage_of_cash', 0)
PercentageOfCash(action) ==
    IF "percentage_of_cash" \in DOMAIN action THEN action.percentage_of_cash ELSE Zero

MarginCeiling == <<1, 4>>
CashFloor == <<1, 10>>

\* TRUE when _validate_portfolio_risk returns an error
MarginRuleBroken(action, temp_session_state) ==
    /\ action.action \in {"OPEN_LONG", "OPEN_SHORT"}
    /\ LET margin_to_use == QMul(temp_session_state.cash, QDiv(PercentageOfCash(action), Hundred))
           simulated_margin_used == QAdd(temp_session_state.margin_used, margin_to_use)
           simulated_funds == temp_session_state.current_funds
       IN  /\ QLt(Zero, simulated_funds)
           /\ QLt(MarginCeiling, QDiv(simulated_margin_used, simulated_funds))

CashRuleBroken(action, temp_session_state) ==
    /\ action.action \in {"OPEN_LONG", "OPEN_SHORT", "BUY_SPOT", "ADD_MARGIN"}
    /\ LET cash_to_use == QMul(temp_session_state.cash, QDiv(PercentageOfCash(action), Hundred))
           simulated_cash == QSub(temp_session_state.cash, cash_to_use)
           simulated_funds == temp_session_state.current_funds
       IN  /\ QLt(Zero, simulated_funds)
           /\ QLt(QDiv(simulated_cash, simulated_funds), CashFloor)

PortfolioRiskError(action, temp_session_state) ==
    MarginRuleBroken(action, temp_session_state) \/ CashRuleBroken(action, temp_session_state)

\* _validate_action: TRUE when validation passes
ValidationPasses(action, temp_session_state) ==
    ~ParameterErrors(action) /\ ~PortfolioRiskError(action, temp_session_state)

\* ------------------------------------------ src/main.py: action handlers
\* A handler that awaits the price is split at the await: XRejected is the
\* early return before it, XResume what runs after it with the fetched
\* price (None: _get_current_price returned None).  A result is
\*   [status: "ok" | "fail" | "exc", session, removed, changed]
\* removed: position objects taken out of their map; changed: detached
\* objects the handler modified.
Result(status, session) ==
    [status |-> status, session |-> session, removed |-> {}, changed |-> {}]

Fraction(percentage) == QDiv(percentage, Hundred)

\* write newpos through the reference held: into the map when the object is
\* still stored there, otherwise only the detached object changes
PutFutures(session, coin, held, newpos) ==
    IF IsLive(session.futures_positions, coin, held)
    THEN [Result("ok", [session EXCEPT !.futures_positions[coin] = newpos])
            EXCEPT !.changed = {}]
    ELSE [Result("ok", session) EXCEPT !.changed = {newpos}]

\* _handle_buy_spot, lines 1323-1339
BuySpotResume(session, action, fetched, id) ==
    LET coin_id == action.coin
        amount_to_invest == QMul(session.cash, Fraction(action.percentage_of_cash))
    IN  IF fetched = None THEN Result("fail", session)
        ELSE IF QLe(amount_to_invest, Zero) THEN Result("ok", session)
        ELSE IF QLt(session.cash, amount_to_invest) THEN Result("fail", session)
        ELSE LET coin_amount == QDiv(amount_to_invest, fetched)
                 pos == IF session.spot_positions[coin_id] = None
                        THEN [amount |-> Zero, entry_price |-> fetched, current_price |-> None,
                              value |-> None, pnl |-> None, id |-> id]
                        ELSE session.spot_positions[coin_id]
                 new_total_cost == QAdd(QMul(pos.amount, pos.entry_price), amount_to_invest)
                 new_amount == QAdd(pos.amount, coin_amount)
             IN  Result("ok",
                    [session EXCEPT
                        !.cash = QSub(session.cash, amount_to_invest),
                        !.spot_positions[coin_id] =
                            [pos EXCEPT !.amount = new_amount,
                                        !.entry_price = QDiv(new_total_cost, new_amount)]])

\* _handle_sell_spot, line 1344
SellSpotRejected(session, action) == session.spot_positions[action.coin] = None

\* pos['amount'] < 1e-9
Negligible(amount) ==
    amount[1] <= 0 \/ (amount[1] <= 2 /\ amount[1] * 1000000000 < amount[2])

\* a faulty variant of _handle_sell_spot: the sale is credited at the last
\* known price of the holding, not at the fetched price
SellSpotAtLastPrice(session, action, held, fetched) ==
    LET coin_id == action.coin
        pos == Deref(session.spot_positions, coin_id, held)
        amount_to_sell == QMul(pos.amount, Fraction(action.percentage_of_holding))
        newpos == [pos EXCEPT !.amount = QSub(pos.amount, amount_to_sell)]
    IN  IF QLe(amount_to_sell, Zero) \/ ~IsLive(session.spot_positions, coin_id, held)
        THEN Result("ok", session)
        ELSE [Result("ok",
                [session EXCEPT
                    !.cash = QAdd(session.cash, QMul(amount_to_sell, LastKnownPrice(pos))),
                    !.spot_positions[coin_id] =
                        IF Negligible(newpos.amount) THEN None ELSE newpos])
              EXCEPT !.removed = IF Negligible(newpos.amount) THEN {pos} ELSE {}]

\* _handle_sell_spot, lines 1346-1357
SellSpotResume(session, action, held, fetched) ==
    LET coin_id == action.coin
        pos == Deref(session.spot_positions, coin_id, held)
        price == IF fetched = None THEN LastKnownPrice(pos) ELSE fetched
        amount_to_sell == QMul(pos.amount, Fraction(action.percentage_of_holding))
        newpos == [pos EXCEPT !.amount = QSub(pos.amount, amount_to_sell)]
        live == IsLive(session.spot_positions, coin_id, held)
        credited == [session EXCEPT !.cash = QAdd(session.cash, QMul(amount_to_sell, price))]
        written == IF live THEN [credited EXCEPT !.spot_positions[coin_id] = newpos]
                   ELSE credited
    IN  IF QLe(amount_to_sell, Zero) THEN Result("ok", session)
        ELSE IF ~Negligible(newpos.amount)
        THEN [Result("ok", written) EXCEPT !.changed = IF live THEN {} ELSE {newpos}]
        ELSE IF written.spot_positions[coin_id] = None
        THEN [Result("exc", written) EXCEPT !.changed = {newpos}]
        ELSE [Result("ok", [written EXCEPT !.spot_positions[coin_id] = None])
                EXCEPT !.removed = {written.spot_positions[coin_id]},
                       !.changed = IF live THEN {} ELSE {newpos}]

\* a faulty variant of the opposite-side check: nothing is rejected
OpenNeverRejected(session, action, side) == FALSE

\* _open_futures_position, lines 1367-1368
OpenRejected(session, action, side) ==
    /\ session.futures_positions[action.coin] # None
    /\ session.futures_positions[action.coin].side # side

\* _open_futures_position, lines 1371-1404; held is existing_pos
OpenResume(session, action, side, held, fetched, id) ==
    LET coin_id == action.coin
        margin_to_use == QMul(session.cash, Fraction(action.percentage_of_cash))
        leverage == action.leverage
        debited == [session EXCEPT !.cash = QSub(session.cash, margin_to_use),
                                   !.margin_used = QAdd(session.margin_used, margin_to_use)]
        position_value_to_add == QMul(margin_to_use, leverage)
        coin_amount_to_add == QDiv(position_value_to_add, fetched)
    IN  IF fetched = None THEN Result("fail", session)
        ELSE IF QLe(margin_to_use, Zero) THEN Result("ok", session)
        ELSE IF QLt(session.cash, margin_to_use) THEN Result("fail", session)
        ELSE IF held # None
        THEN LET existing_pos == Deref(session.futures_positions, coin_id, held)
                 new_total_value == QAdd(existing_pos.value, position_value_to_add)
                 new_total_margin == QAdd(existing_pos.margin, margin_to_use)
                 new_total_amount == QAdd(existing_pos.amount, coin_amount_to_add)
                 entry_price == IF QLt(Zero, new_total_amount)
                                THEN QDiv(new_total_value, new_total_amount) ELSE Zero
                 new_leverage == IF QLt(Zero, new_total_margin)
                                 THEN QDiv(new_total_value, new_total_margin) ELSE Zero
             IN  PutFutures(debited, coin_id, held,
                    [existing_pos EXCEPT
                        !.entry_price = entry_price, !.margin = new_total_margin,
                        !.amount = new_total_amount, !.value = new_total_value,
                        !.leverage = new_leverage,
                        !.liquidation_price =
                            calculate_liquidation_price(entry_price, new_leverage, side)])
        ELSE [Result("ok",
                [debited EXCEPT !.futures_positions[coin_id] =
                    [amount |-> coin_amount_to_add, entry_price |-> fetched,
                     current_price |-> fetched, value |-> position_value_to_add,
                     margin |-> margin_to_use, leverage |-> leverage, side |-> side,
                     liquidation_price |-> calculate_liquidation_price(fetched, leverage, side),
                     pnl |-> Zero, id |-> id]])
              EXCEPT !.removed = IF session.futures_positions[coin_id] = None THEN {}
                                 ELSE {session.futures_positions[coin_id]}]

\* _handle_add_margin, lines 1425-1439 (no await)
AddMargin(session, action) ==
    LET coin_id == action.coin
        pos == session.futures_positions[coin_id]
        amount_to_add == QMul(session.cash, Fraction(action.percentage_of_cash))
    IN  IF pos = None THEN Result("fail", session)
        ELSE IF QLe(amount_to_add, Zero) THEN Result("ok", session)
        ELSE IF QLt(session.cash, amount_to_add) THEN Result("fail", session)
        ELSE LET margin == QAdd(pos.margin, amount_to_add)
                 leverage == IF QLt(Zero, margin) THEN QDiv(pos.value, margin) ELSE Zero
             IN  Result("ok",
                    [session EXCEPT
                        !.cash = QSub(session.cash, amount_to_add),
                        !.margin_used = QAdd(session.margin_used, amount_to_add),
                        !.futures_positions[coin_id] =
                            [pos EXCEPT !.margin = margin, !.leverage = leverage,
                                        !.liquidation_price =
                                            calculate_liquidation_price(pos.entry_price,
                                                                        leverage, pos.side)]])

\* the early return shared by reduce-margin and the leverage handlers
NoFuturesPosition(session, action) == session.futures_positions[action.coin] = None

\* imported by main.py line 14 and called at line 1457; not defined in
\* investment_utils.py: the maintenance-margin requirement of the notional
calculate_minimum_margin(position_value) ==
    QMul(position_value, get_maintenance_margin_rate(position_value))

\* _handle_reduce_margin, lines 1446-1467
ReduceMarginResume(session, action, held, fetched) ==
    LET coin_id == action.coin
        pos == Deref(session.futures_positions, coin_id, held)
        price == IF fetched = None THEN pos.current_price ELSE fetched
        pnl == calculate_futures_pnl(pos, price)
        amount_to_reduce == QMul(pos.margin, Fraction(action.percentage_of_margin))
        new_margin == QSub(pos.margin, amount_to_reduce)
        min_required_margin == calculate_minimum_margin(QMul(pos.amount, price))
        leverage == IF QLt(Zero, new_margin) THEN QDiv(pos.value, new_margin) ELSE Inf
    IN  IF QLe(pnl, Zero) THEN Result("fail", session)
        ELSE IF QLe(amount_to_reduce, Zero) THEN Result("ok", session)
        ELSE IF QLt(pnl, amount_to_reduce) THEN Result("fail", session)
        ELSE IF QLt(new_margin, min_required_margin) THEN Result("fail", session)
        ELSE PutFutures([session EXCEPT !.cash = QAdd(session.cash, amount_to_reduce),
                                        !.margin_used = QSub(session.margin_used, amount_to_reduce)],
                        coin_id, held,
                        [pos EXCEPT !.margin = new_margin, !.leverage = leverage,
                                    !.liquidation_price =
                                        calculate_liquidation_price(pos.entry_price, leverage,
                                                                    pos.side)])

\* _handle_increase_leverage, lines 1471-1478
IncreaseLeverageRejected(session, action) ==
    \/ NoFuturesPosition(session, action)
    \/ QLe(action.new_leverage, session.futures_positions[action.coin].leverage)
    \/ QLt(Hundred, action.new_leverage)

\* _handle_increase_leverage, lines 1480-1492
IncreaseLeverageResume(session, action, held, fetched) ==
    LET coin_id == action.coin
        pos == Deref(session.futures_positions, coin_id, held)
        new_leverage == action.new_leverage
        price == IF fetched = None THEN pos.current_price ELSE fetched
        new_margin == QDiv(QMul(pos.amount, price), new_leverage)
        margin_released == QSub(pos.margin, new_margin)
        new_liquidation_price ==
            calculate_liquidation_price(pos.entry_price, new_leverage, pos.side)
    IN  IF \/ pos.side = Long /\ QLe(price, new_liquidation_price)
           \/ pos.side = Short /\ QLe(new_liquidation_price, price)
        THEN Result("fail", session)
        ELSE PutFutures([session EXCEPT !.cash = QAdd(session.cash, margin_released),
                                        !.margin_used = QSub(session.margin_used, margin_released)],
                        coin_id, held,
                        [pos EXCEPT !.margin = new_margin, !.leverage = new_leverage,
                                    !.liquidation_price = new_liquidation_price])

\* _handle_decrease_leverage, lines 1496-1502
DecreaseLeverageRejected(session, action) ==
    \/ NoFuturesPosition(session, action)
    \/ QLe(session.futures_positions[action.coin].leverage, action.new_leverage)
    \/ QLt(action.new_leverage, One)

\* _handle_decrease_leverage, lines 1504-1515
DecreaseLeverageResume(session, action, held, fetched) ==
    LET coin_id == action.coin
        pos == Deref(session.futures_positions, coin_id, held)
        new_leverage == action.new_leverage
        price == IF fetched = None THEN pos.current_price ELSE fetched
        new_margin == QDiv(QMul(pos.amount, price), new_leverage)
        margin_to_add == QSub(new_margin, pos.margin)
    IN  IF QLt(session.cash, margin_to_add) THEN Result("fail", session)
        ELSE PutFutures([session EXCEPT !.cash = QSub(session.cash, margin_to_add),
                                        !.margin_used = QAdd(session.margin_used, margin_to_add)],
                        coin_id, held,
                        [pos EXCEPT !.margin = new_margin, !.leverage = new_leverage,
                                    !.liquidation_price =
                                        calculate_liquidation_price(pos.entry_price,
                                                                    new_leverage, pos.side)])

\* _create_conditional_order, lines 1523-1554 (no await)
\* position: the position the order was created for (by identity; the code
\* keeps no such key)
\* a faulty variant of _create_conditional_order: lines 1533-1541 are left out
CreateConditionalOrderAnyPrice(session, action, order_type) ==
    LET coin_id == action.coin
        price_val == IF order_type = "STOP_LOSS" THEN action.stop_price ELSE action.target_price
        pos == session.futures_positions[coin_id]
        kept == SelectSeq(session.pending_orders,
                          LAMBDA o : ~(o.coin = coin_id /\ o.type = order_type))
        order == [type |-> order_type, coin |-> coin_id, price |-> price_val,
                  trigger_action |-> IF pos.side = Long THEN "CLOSE_LONG" ELSE "CLOSE_SHORT",
                  position |-> pos.id]
    IN  IF pos = None THEN Result("fail", session)
        ELSE Result("ok", [session EXCEPT !.pending_orders = Append(kept, order)])

\* a faulty variant of _create_conditional_order: line 1545 is left out
CreateConditionalOrderAppends(session, action, order_type) ==
    LET coin_id == action.coin
        price_val == IF order_type = "STOP_LOSS" THEN action.stop_price ELSE action.target_price
        pos == session.futures_positions[coin_id]
        current_price == LastKnownPrice(pos)
        wrong_side ==
            IF order_type = "STOP_LOSS"
            THEN \/ pos.side = Long /\ QLe(current_price, price_val)
                 \/ pos.side = Short /\ QLe(price_val, current_price)
            ELSE \/ pos.side = Long /\ QLe(price_val, current_price)
                 \/ pos.side = Short /\ QLe(current_price, price_val)
        order == [type |-> order_type, coin |-> coin_id, price |-> price_val,
                  trigger_action |-> IF pos.side = Long THEN "CLOSE_LONG" ELSE "CLOSE_SHORT",
                  position |-> pos.id]
    IN  IF pos = None THEN Result("fail", session)
        ELSE IF wrong_side THEN Result("fail", session)
        ELSE Result("ok", [session EXCEPT !.pending_orders = Append(@, order)])

CreateConditionalOrder(session, action, order_type) ==
    LET coin_id == action.coin
        price_val == IF order_type = "STOP_LOSS" THEN action.stop_price ELSE action.target_price
        pos == session.futures_positions[coin_id]
        current_price == LastKnownPrice(pos)
        wrong_side ==
            IF order_type = "STOP_LOSS"
            THEN \/ pos.side = Long /\ QLe(current_price, price_val)
                 \/ pos.side = Short /\ QLe(price_val, current_price)
            ELSE \/ pos.side = Long /\ QLe(price_val, current_price)
                 \/ pos.side = Short /\ QLe(current_price, price_val)
        kept == SelectSeq(session.pending_orders,
                          LAMBDA o : ~(o.coin = coin_id /\ o.type = order_type))
        order == [type |-> order_type, coin |-> coin_id, price |-> price_val,
                  trigger_action |-> IF pos.side = Long THEN "CLOSE_LONG" ELSE "CLOSE_SHORT",
                  position |-> pos.id]
    IN  IF pos = None THEN Result("fail", session)
        ELSE IF wrong_side THEN Result("fail", session)
        ELSE Result("ok", [session EXCEPT !.pending_orders = Append(kept, order)])

\* ------------------------------- src/main.py: execute_rebalance_plan
Side(action_type) == IF action_type \in {"OPEN_LONG", "CLOSE_LONG"} THEN Long ELSE Short

\* the handlers that await _get_current_price
AwaitsPrice ==
    {"BUY_SPOT", "SELL_SPOT", "OPEN_LONG", "OPEN_SHORT", "CLOSE_LONG", "CLOSE_SHORT",
     "REDUCE_MARGIN", "INCREASE_LEVERAGE", "DECREASE_LEVERAGE"}

\* the handler returns a failure before its await
Rejected(session, action) ==
    CASE action.action = "SELL_SPOT" -> SellSpotRejected(session, action)
      [] action.action \in {"OPEN_LONG", "OPEN_SHORT"} ->
            OpenRejected(session, action, Side(action.action))
      [] action.action \in {"CLOSE_LONG", "CLOSE_SHORT"} ->
            CloseRejected(session, action.coin, Side(action.action))
      [] action.action = "REDUCE_MARGIN" -> NoFuturesPosition(session, action)
      [] action.action = "INCREASE_LEVERAGE" -> IncreaseLeverageRejected(session, action)
      [] action.action = "DECREASE_LEVERAGE" -> DecreaseLeverageRejected(session, action)
      [] OTHER -> FALSE

\* the position dictionary the handler reads before its await
HeldPos(session, action) ==
    CASE action.action = "BUY_SPOT" -> None
      [] action.action = "SELL_SPOT" -> session.spot_positions[action.coin]
      [] OTHER -> session.futures_positions[action.coin]

\* the handlers without an await
Immediate(session, action) ==
    CASE action.action = "ADD_MARGIN" -> AddMargin(session, action)
      [] action.action = "SET_STOP_LOSS" -> CreateConditionalOrder(session, action, "STOP_LOSS")
      [] OTHER -> CreateConditionalOrder(session, action, "TAKE_PROFIT")

\* the rest of the handler once the price arrived
Resume(session, action, held, fetched, t, i) ==
    CASE action.action = "BUY_SPOT" -> BuySpotResume(session, action, fetched, <<"s", t, i>>)
      [] action.action = "SELL_SPOT" -> SellSpotResume(session, action, held, fetched)
      [] action.action \in {"OPEN_LONG", "OPEN_SHORT"} ->
            OpenResume(session, action, Side(action.action), held, fetched, <<"f", t, i>>)
      [] action.action \in {"CLOSE_LONG", "CLOSE_SHORT"} ->
            LET r == CloseResume(session, action.coin, held, fetched)
            IN  [Result(r.status, r.session) EXCEPT !.removed = r.removed]
      [] action.action = "REDUCE_MARGIN" -> ReduceMarginResume(session, action, held, fetched)
      [] action.action = "INCREASE_LEVERAGE" ->
            IncreaseLeverageResume(session, action, held, fetched)
      [] OTHER -> DecreaseLeverageResume(session, action, held, fetched)

\* a faulty variant of the except branch: the stored dictionary is replaced
\* by a copy of the session as it is now, not as it was before the plan
RollbackToCurrent(h, t) ==
    IF investment_sessions # 0 THEN Append(h, h[tasks[t].session]) ELSE h

\* lines 1301-1307: the except branch
Rollback(h, t) ==
    IF investment_sessions # 0 THEN Append(h, tasks[t].session_backup) ELSE h

\* a faulty variant of line 1294: the snapshot taken before the plan is kept
KeepSnapshot(temp_session_state, session) == temp_session_state

\* line 1294: temp_session_state = copy.deepcopy(session)
SyncSnapshot(temp_session_state, session) == session

\* action i ended with result r: lines 1291-1307. error tells what was raised
\* when r is not a success: "validation" (line 1277), "unknown" (line 1287),
\* "rejected" and "failed" (line 1297: the handler returned a failure before
\* or after its await), "exception" (the handler raised)
Finish(t, r, error) ==
    LET o == tasks[t].session
        moved == r.removed \cup r.changed
        written == [heap EXCEPT ![o] = r.session]
        me == IF r.status = "ok"
              THEN [tasks[t] EXCEPT !.pc = "validate", !.i = @ + 1, !.pos = None,
                                    !.temp_session_state = SyncSnapshot(@, r.session),
                                    !.applied = @ + 1]
              ELSE [tasks[t] EXCEPT !.pc = "rolled_back", !.pos = None, !.error = error]
    IN  /\ heap' = IF r.status = "ok" THEN written ELSE Rollback(written, t)
        /\ investment_sessions' = IF r.status = "ok" \/ investment_sessions = 0
                                  THEN investment_sessions ELSE Len(heap) + 1
        /\ tasks' = [RefreshTasks(tasks, o, moved) EXCEPT ![t] = me]
        /\ tick' = Refresh(tick, o, moved)
        /\ running' = IF r.status = "ok" THEN t ELSE Nobody
        /\ UNCHANGED <<now, cmd, monitor_removed>>

\* get_ai_rebalance_plan returned plan (None: no provider, an exception or an
\* unparsable reply); trigger_ai_rebalance lines 1186-1191 and 1263-1267
\* trigger_ai_rebalance returns without a transaction: no plan, no actions,
\* or HOLD as the only action
NoPlanButHold(plan) == plan = None \/ plan = <<>>

NoPlan(plan) ==
    \/ plan = None \/ plan = <<>>
    \/ Len(plan) = 1 /\ plan[1].action = "HOLD"

TaskPlan(t, plan) ==
    /\ running = Nobody /\ tasks[t].pc = "oracle"
    /\ IF NoPlan(plan)
       THEN /\ tasks' = [tasks EXCEPT ![t].pc = "held", ![t].plan = plan]
            /\ UNCHANGED running
       ELSE /\ LET session == heap[tasks[t].session] IN
               tasks' = [tasks EXCEPT ![t].pc = "validate", ![t].plan = plan, ![t].i = 1,
                                      ![t].session_backup = session,
                                      ![t].temp_session_state = session,
                                      ![t].before = session]
            /\ running' = t
    /\ UNCHANGED <<investment_sessions, heap, now, cmd, tick, monitor_removed>>

\* the head of the loop, lines 1270-1287
TaskValidate(t) ==
    /\ running = t /\ tasks[t].pc = "validate"
    /\ LET me == tasks[t] IN
       IF me.i > Len(me.plan)
       THEN /\ tasks' = [tasks EXCEPT ![t].pc = "done"]
            /\ running' = Nobody
            /\ UNCHANGED <<investment_sessions, heap, tick, now, cmd, monitor_removed>>
       ELSE LET action == me.plan[me.i] IN
            IF ~ValidationPasses(action, me.temp_session_state)
            THEN Finish(t, Result("fail", heap[me.session]), "validation")
            ELSE IF action.action = "HOLD"
            THEN /\ tasks' = [tasks EXCEPT ![t].i = @ + 1, ![t].applied = @ + 1]
                 /\ UNCHANGED <<investment_sessions, heap, tick, running>>
                 /\ UNCHANGED <<now, cmd, monitor_removed>>
            ELSE IF action.action \notin HandledActions
            THEN Finish(t, Result("fail", heap[me.session]), "unknown")
            ELSE /\ tasks' = [tasks EXCEPT ![t].pc = "handler"]
                 /\ UNCHANGED <<investment_sessions, heap, tick, running>>
                 /\ UNCHANGED <<now, cmd, monitor_removed>>

\* line 1290: the handler up to its await, or all of it when it has none
TaskHandler(t) ==
    /\ running = t /\ tasks[t].pc = "handler"
    /\ LET me == tasks[t]
           action == me.plan[me.i]
           session == heap[me.session]
       IN  IF action.action \notin AwaitsPrice
           THEN Finish(t, Immediate(session, action), "failed")
           ELSE IF Rejected(session, action)
           THEN Finish(t, Result("fail", session), "rejected")
           ELSE /\ tasks' = [tasks EXCEPT ![t].pc = "price",
                                          ![t].pos = HeldPos(session, action)]
                /\ running' = Nobody
                /\ UNCHANGED <<investment_sessions, heap, tick, now, cmd, monitor_removed>>

\* _get_current_price returned fetched (None: it failed)
TaskResume(t, fetched) ==
    /\ running = Nobody /\ tasks[t].pc = "price"
    /\ LET me == tasks[t]
           r == Resume(heap[me.session], me.plan[me.i], me.pos, fetched, t, me.i)
       IN  Finish(t, r, IF r.status = "exc" THEN "exception" ELSE "failed")

\* ------------------------------------------------ the plans of the AI
Hold == [action |-> "HOLD"]
Unknown == [action |-> "REBALANCE"]
BuySpot == [action |-> "BUY_SPOT", coin |-> 2, percentage_of_cash |-> Q(50)]
SellSpot == [action |-> "SELL_SPOT", coin |-> 2, percentage_of_holding |-> Hundred]
OpenLong == [action |-> "OPEN_LONG", coin |-> 1, percentage_of_cash |-> Q(16), leverage |-> Q(5)]
OpenShort == [action |-> "OPEN_SHORT", coin |-> 1, percentage_of_cash |-> Q(16), leverage |-> Q(5)]
OpenShortTwice == [OpenShort EXCEPT !.percentage_of_cash = Q(200)]
BuySpotNoPercentage == [action |-> "BUY_SPOT", coin |-> 2]
OpenLongOverLeveraged == [OpenLong EXCEPT !.leverage = Q(200)]
OpenLongTenth == [OpenLong EXCEPT !.percentage_of_cash = Q(10)]
OpenLongNothing == [OpenLong EXCEPT !.percentage_of_cash = Zero]
OpenLongHundredfold == [OpenLong EXCEPT !.percentage_of_cash = Q(25), !.leverage = Hundred]
CloseLong == [action |-> "CLOSE_LONG", coin |-> 1]
CloseShort == [action |-> "CLOSE_SHORT", coin |-> 1]
AddMarginHalf == [action |-> "ADD_MARGIN", coin |-> 1, percentage_of_cash |-> Q(50)]
ReduceMargin == [action |-> "REDUCE_MARGIN", coin |-> 1, percentage_of_margin |-> Q(10)]
IncreaseLeverage == [action |-> "INCREASE_LEVERAGE", coin |-> 1, new_leverage |-> Q(10)]
DecreaseLeverage == [action |-> "DECREASE_LEVERAGE", coin |-> 1, new_leverage |-> One]
IncreaseLeverageBelowOne == [IncreaseLeverage EXCEPT !.new_leverage = <<19, 20>>]
SetStopLoss == [action |-> "SET_STOP_LOSS", coin |-> 1, stop_price |-> Usd(45000)]
SetTakeProfit == [action |-> "SET_TAKE_PROFIT", coin |-> 1, target_price |-> Usd(45000)]
SetStopLoss52000 == [SetStopLoss EXCEPT !.stop_price = Usd(52000)]
SetStopLoss48000 == [SetStopLoss EXCEPT !.stop_price = Usd(48000)]
SetStopLossLower == [SetStopLoss EXCEPT !.stop_price = Usd(42000)]
SetTakeProfitHigher == [SetTakeProfit EXCEPT !.target_price = Usd(55000)]
SetTakeProfitOther == [SetTakeProfit EXCEPT !.coin = 2]

\* what get_ai_rebalance_plan may return: None or the list plan["actions"]
Plans ==
    {plan \in {None, <<Hold>>, <<Hold, Unknown>>,
               <<BuySpot, OpenShortTwice>>, <<BuySpot, DecreaseLeverage>>,
               <<OpenLong, OpenLong>>, <<OpenShort>>,
               <<BuySpotNoPercentage>>, <<OpenLongOverLeveraged>>,
               <<SetStopLoss, CloseLong>>,
               <<CloseLong, OpenLongTenth>>, <<OpenLongNothing>>,
               <<CloseLong, OpenLongHundredfold>>,
               <<CloseLong, OpenLongHundredfold, CloseLong>>,
               <<BuySpot, SellSpot>>, <<SetStopLoss, SetTakeProfitOther>>,
               <<SetTakeProfit, ReduceMargin>>,
               <<SetTakeProfit, CloseLong, OpenLong>>,
               <<AddMarginHalf, IncreaseLeverageBelowOne>>,
               <<SetStopLoss52000>>, <<SetStopLoss48000>>,
               <<SetTakeProfitHigher, SetStopLoss, SetStopLossLower>>,
               <<CloseLong>>, <<CloseShort>>, <<SellSpot>>,
               <<AddMarginHalf>>, <<ReduceMargin>>, <<IncreaseLeverage>>,
               <<SetStopLoss>>, <<SetTakeProfit>>} : Len(plan) <= MaxPlanLen}

\* ------------------------------------------- the plan intake (ai_parser)
\* A text is a sequence of tokens: the punctuation of JSON, string and number
\* literals, the words null and NaN, the two code fences and words of prose.
\* White space, which the parser skips and the cleaner strips, is left out,
\* and a string literal holds no brace, bracket or fence.
Tok(k, s, n) == [k |-> k, s |-> s, n |-> n]
LBrace == Tok("punct", "{", 0)
RBrace == Tok("punct", "}", 0)
LBracket == Tok("punct", "[", 0)
RBracket == Tok("punct", "]", 0)
Colon == Tok("punct", ":", 0)
Comma == Tok("punct", ",", 0)
\* three backquotes followed by json, and three backquotes
FenceJson == Tok("fence", "json", 0)
Fence == Tok("fence", "", 0)
StrLit(s) == Tok("string", s, 0)
NumLit(n) == Tok("number", "", n)
NullLit == Tok("null", "null", 0)
NaNLit == Tok("nan", "NaN", 0)
Word(s) == Tok("word", s, 0)

\* The objects json.loads builds, each with the name of its Python type.  The
\* numbers of the model are the integers and float('nan').
PyStr(s) == [type |-> "str", v |-> s]
PyInt(n) == [type |-> "int", v |-> n]
PyNaN == [type |-> "float", v |-> "nan"]
PyNone == [type |-> "NoneType", v |-> "None"]
PyList(items) == [type |-> "list", v |-> items]
PyDict(entries) == [type |-> "dict", v |-> entries]
EmptyEntries == [key \in {} |-> PyNone]
\* d[key] = value
Put(entries, key, value) ==
    [k \in DOMAIN entries \cup {key} |-> IF k = key THEN value ELSE entries[k]]

Number == {"int", "float"}

STRATEGY_SCHEMA ==
    [required |-> <<"strategy", "allocations">>,
     fields |->
        [strategy |-> [type |-> {"str"}],
         risk_level |-> [type |-> {"str"}, default |-> PyStr("medium")],
         allocations |->
            [type |-> {"dict"},
             required |-> <<"spot", "futures", "cash">>,
             fields |->
                [spot |-> [type |-> {"list"}, default |-> PyList(<<>>)],
                 futures |-> [type |-> {"list"}, default |-> PyList(<<>>)],
                 cash |-> [type |-> Number, min |-> 0, max |-> 100,
                           default |-> PyInt(100)]]]]]

\* (the default texts are in Chinese in the source)
REBALANCE_SCHEMA ==
    [required |-> <<"analysis", "actions">>,
     fields |->
        [analysis |-> [type |-> {"str"}, default |-> PyStr("no analysis")],
         market_direction |-> [type |-> {"str"}, default |-> PyStr("neutral")],
         confidence_level |-> [type |-> {"str"}, default |-> PyStr("medium")],
         time_horizon |-> [type |-> {"str"}, default |-> PyStr("short_term")],
         actions |->
            [type |-> {"list"},
             default |-> PyList(<<PyDict([action |-> PyStr("HOLD"),
                                          reason |-> PyStr("hold by default")])>>)]]]

PERFORMANCE_SCHEMA ==
    [required |-> <<"performance_rating", "strengths", "weaknesses",
                    "key_learnings", "suggestions">>,
     fields |->
        [performance_rating |-> [type |-> Number, min |-> 0, max |-> 10,
                                 default |-> PyInt(5)],
         strengths |-> [type |-> {"list"},
                        default |-> PyList(<<PyStr("no clear strength")>>)],
         weaknesses |-> [type |-> {"list"},
                         default |-> PyList(<<PyStr("no clear weakness")>>)],
         key_learnings |-> [type |-> {"list"},
                            default |-> PyList(<<PyStr("more data needed")>>)],
         suggestions |-> [type |-> {"list"},
                          default |-> PyList(<<PyStr("keep watching the market")>>)]]]

Schemas == {"strategy", "rebalance", "performance"}
SchemaOf(name) ==
    CASE name = "strategy" -> STRATEGY_SCHEMA
      [] name = "rebalance" -> REBALANCE_SCHEMA
      [] name = "performance" -> PERFORMANCE_SCHEMA

Least(S) == CHOOSE x \in S : \A y \in S : x <= y
Greatest(S) == CHOOSE x \in S : \A y \in S : y <= x

\* The shortest stretch between the first json fence and the next fence; else
\* the longest stretch from the first brace or bracket that has its closing
\* counterpart after it to the last such counterpart; else the text itself.
CleanJsonText(text) ==
    LET opens == {i \in DOMAIN text : text[i] = FenceJson}
        closes(i) == {j \in DOMAIN text : j > i /\ text[j].k = "fence"}
        closer(p) == IF text[p] = LBrace THEN RBrace ELSE RBracket
        ends(p) == {q \in DOMAIN text : q > p /\ text[q] = closer(p)}
        starts == {p \in DOMAIN text : text[p] \in {LBrace, LBracket} /\ ends(p) # {}}
    IN  IF opens # {} /\ closes(Least(opens)) # {}
        THEN SubSeq(text, Least(opens) + 1, Least(closes(Least(opens))) - 1)
        ELSE IF starts # {}
        THEN SubSeq(text, Least(starts), Greatest(ends(Least(starts))))
        ELSE text

\* json.loads: the value read and the position after it, or JSONDecodeError
Decoded(value, end) == [exception |-> "none", value |-> value, end |-> end]
JSONDecodeError == [exception |-> "JSONDecodeError", value |-> PyNone, end |-> 0]

RECURSIVE ScanValue(_, _), ScanMembers(_, _, _), ScanElements(_, _, _)
ScanValue(s, p) ==
    IF p > Len(s) THEN JSONDecodeError
    ELSE CASE s[p].k = "string" -> Decoded(PyStr(s[p].s), p + 1)
           [] s[p].k = "number" -> Decoded(PyInt(s[p].n), p + 1)
           [] s[p].k = "nan" -> Decoded(PyNaN, p + 1)
           [] s[p].k = "null" -> Decoded(PyNone, p + 1)
           [] s[p] = LBrace ->
                IF p < Len(s) /\ s[p + 1] = RBrace
                THEN Decoded(PyDict(EmptyEntries), p + 2)
                ELSE ScanMembers(s, p + 1, EmptyEntries)
           [] s[p] = LBracket ->
                IF p < Len(s) /\ s[p + 1] = RBracket
                THEN Decoded(PyList(<<>>), p + 2)
                ELSE ScanElements(s, p + 1, <<>>)
           [] OTHER -> JSONDecodeError

ScanMembers(s, p, entries) ==
    IF p + 1 > Len(s) \/ s[p].k # "string" \/ s[p + 1] # Colon THEN JSONDecodeError
    ELSE LET member == ScanValue(s, p + 2)
         IN  IF member.exception # "none" \/ member.end > Len(s) THEN JSONDecodeError
             ELSE IF s[member.end] = RBrace
             THEN Decoded(PyDict(Put(entries, s[p].s, member.value)), member.end + 1)
             ELSE IF s[member.end] = Comma
             THEN ScanMembers(s, member.end + 1, Put(entries, s[p].s, member.value))
             ELSE JSONDecodeError

ScanElements(s, p, items) ==
    LET element == ScanValue(s, p)
    IN  IF element.exception # "none" \/ element.end > Len(s) THEN JSONDecodeError
        ELSE IF s[element.end] = RBracket
        THEN Decoded(PyList(Append(items, element.value)), element.end + 1)
        ELSE IF s[element.end] = Comma
        THEN ScanElements(s, element.end + 1, Append(items, element.value))
        ELSE JSONDecodeError

Loads(s) ==
    LET decoded == ScanValue(s, 1)
    IN  IF decoded.exception = "none" /\ decoded.end = Len(s) + 1
        THEN decoded ELSE JSONDecodeError

\* value < bound and value > bound, which are both False of float('nan')
LessThan(value, bound) == value.type = "int" /\ value.v < bound
GreaterThan(value, bound) == value.type = "int" /\ value.v > bound

RECURSIVE ValidateSchema(_, _)
ValidateSchema(data, schema) ==
    /\ data.type = "dict"
    /\ \A i \in DOMAIN schema.required : schema.required[i] \in DOMAIN data.v
    /\ \A field \in DOMAIN schema.fields \cap DOMAIN data.v :
        LET value == data.v[field]
            rules == schema.fields[field]
        IN  /\ "type" \in DOMAIN rules => value.type \in rules.type
            /\ "min" \in DOMAIN rules => ~LessThan(value, rules.min)
            /\ "max" \in DOMAIN rules => ~GreaterThan(value, rules.max)
            /\ value.type = "dict" /\ "fields" \in DOMAIN rules
                    => ValidateSchema(value, rules)

RECURSIVE GetFallbackResponse(_)
GetFallbackResponse(schema) ==
    LET nested(rules) == /\ "type" \in DOMAIN rules /\ rules.type = {"dict"}
                         /\ "fields" \in DOMAIN rules
        filled == {field \in DOMAIN schema.fields :
                      \/ "default" \in DOMAIN schema.fields[field]
                      \/ nested(schema.fields[field])}
    IN  PyDict([field \in filled |->
                   IF "default" \in DOMAIN schema.fields[field]
                   THEN schema.fields[field].default
                   ELSE GetFallbackResponse(schema.fields[field])])

\* AIResponseParser.parse: what it returns, or the exception it lets through
Returned(value) == [exception |-> "none", value |-> value]
Parse(completion_text, schema) ==
    LET decoded == Loads(CleanJsonText(completion_text))
    IN  IF decoded.exception = "none"
        THEN IF ValidateSchema(decoded.value, schema)
             THEN Returned(decoded.value)
             ELSE Returned(GetFallbackResponse(schema))
        ELSE Returned(GetFallbackResponse(schema))

\* ---------------------------------------------------- the oracle's texts
RECURSIVE Joined(_)
Joined(parts) ==
    IF parts = <<>> THEN <<>>
    ELSE IF Len(parts) = 1 THEN parts[1]
    ELSE parts[1] \o <<Comma>> \o Joined(Tail(parts))
Member(key, value) == <<StrLit(key), Colon>> \o value
Object(members) == <<LBrace>> \o Joined(members) \o <<RBrace>>
Array(elements) == <<LBracket>> \o Joined(elements) \o <<RBracket>>

AllocationsText(cash) ==
    Object(<<Member("spot", Array(<<>>)), Member("futures", Array(<<>>)),
             Member("cash", cash)>>)
StrategyText(cash) ==
    Object(<<Member("strategy", <<StrLit("balanced")>>),
             Member("allocations", AllocationsText(cash))>>)
HoldText == Object(<<Member("action", <<StrLit("HOLD")>>)>>)
RebalanceText(actions) ==
    Object(<<Member("analysis", <<StrLit("flat market")>>),
             Member("actions", actions)>>)
PerformanceText(rating) ==
    Object(<<Member("performance_rating", rating),
             Member("strengths", Array(<<>>)),
             Member("weaknesses", Array(<<>>)),
             Member("key_learnings", Array(<<<<StrLit("patience")>>>>)),
             Member("suggestions", Array(<<>>))>>)

Texts ==
    {StrategyText(<<cash>>) :
        cash \in {NumLit(50), NumLit(0), NumLit(100), NumLit(150), NumLit(-1),
                  NaNLit, NullLit, StrLit("half")}}
    \cup {PerformanceText(<<rating>>) :
            rating \in {NumLit(7), NumLit(11), NumLit(-1), NaNLit, StrLit("good")}}
    \cup {RebalanceText(actions) :
            actions \in {Array(<<HoldText>>), Array(<<>>), HoldText, <<NullLit>>}}
    \cup {
        \* a required field is missing
        Object(<<Member("allocations", AllocationsText(<<NumLit(50)>>))>>),
        Object(<<Member("strategy", <<StrLit("balanced")>>),
                 Member("allocations",
                        Object(<<Member("spot", Array(<<>>)),
                                 Member("futures", Array(<<>>))>>))>>),
        Object(<<Member("analysis", <<StrLit("flat market")>>)>>),
        Object(<<Member("performance_rating", <<NumLit(7)>>)>>),
        \* a field of the wrong type
        Object(<<Member("strategy", <<NumLit(1)>>),
                 Member("allocations", AllocationsText(<<NumLit(50)>>))>>),
        Object(<<Member("strategy", <<StrLit("balanced")>>),
                 Member("allocations", Array(<<>>))>>),
        Object(<<Member("analysis", <<StrLit("flat market")>>),
                 Member("market_direction", <<NumLit(1)>>),
                 Member("actions", Array(<<HoldText>>))>>),
        \* a key given twice
        Object(<<Member("analysis", <<NumLit(1)>>),
                 Member("analysis", <<StrLit("flat market")>>),
                 Member("actions", Array(<<HoldText>>))>>),
        \* a fenced block, prose around the object
        <<Word("Here"), FenceJson>> \o StrategyText(<<NumLit(50)>>) \o <<Fence, Word("done")>>,
        <<FenceJson>> \o RebalanceText(Array(<<HoldText>>))
            \o <<FenceJson>> \o HoldText \o <<Fence>>,
        <<FenceJson>> \o PerformanceText(<<NumLit(7)>>),
        <<Fence>> \o StrategyText(<<NumLit(50)>>) \o <<Fence>>,
        <<Word("Sure")>> \o RebalanceText(Array(<<HoldText>>)) \o <<Word("ok")>>,
        StrategyText(<<NumLit(50)>>) \o <<Word("see"), LBrace, Word("x"), RBrace>>,
        <<LBracket, Word("note"), RBracket>> \o PerformanceText(<<NumLit(7)>>),
        \* not a JSON document, or not an object
        SubSeq(StrategyText(<<NumLit(50)>>), 1, Len(StrategyText(<<NumLit(50)>>)) - 1),
        Object(<<Member("analysis", <<StrLit("flat market")>>), <<>>>>),
        <<>>,
        <<Word("sorry")>>,
        <<LBrace, RBrace>>,
        Array(<<<<NumLit(1)>>>>),
        <<StrLit("hold")>>,
        <<NumLit(7)>>}

\* plan["actions"] of the plan the parser returns for a text it cannot use
FallbackPlan ==
    LET actions == GetFallbackResponse(REBALANCE_SCHEMA).v.actions.v
    IN  [i \in DOMAIN actions |-> [key \in DOMAIN actions[i].v |-> actions[i].v[key].v]]

OraclePlans == Plans \cup {FallbackPlan}

\* no call of the parser in progress
IdleParser ==
    [pc |-> "idle", completion_text |-> <<>>, schema |-> "strategy",
     result |-> Returned(PyNone)]

\* ------------------------------------------------------- the machine
Init ==
    /\ investment_sessions = 0
    /\ heap = <<>>
    /\ now = 0
    /\ running = Nobody
    /\ cmd = IdleCmd
    /\ tick = IdleTick
    /\ tasks = <<>>
    /\ monitor_removed = {}
    /\ parser = IdleParser
    /\ sessions_file = None

\* _save_sessions_to_file, as the last statement of a step: json.dump of
\* self.investment_sessions as the step leaves it
SaveSessionsToFile ==
    sessions_file' = IF investment_sessions' = 0 THEN None ELSE heap'[investment_sessions']

\* the steps that neither call the parser nor write the file
Quiet == UNCHANGED <<parser, sessions_file>>

StepOn(plans, suggestions) ==
    \/ (\E initial_funds \in InitialFundsSet : CmdStart(initial_funds)) /\ Quiet
    \* line 592
    \/ (\E allocations \in suggestions \cup {None} : CmdStrategy(allocations))
            /\ UNCHANGED parser
            /\ IF cmd'.pc = "idle" THEN SaveSessionsToFile ELSE UNCHANGED sessions_file
    \/ (\E prices_data \in PriceMaps(Coins) \cup {None} : CmdAllocate(prices_data))
            /\ UNCHANGED parser /\ SaveSessionsToFile
    \/ CmdFinish /\ Quiet
    \* line 558
    \/ CmdSettled /\ UNCHANGED parser /\ SaveSessionsToFile
    \/ TickStart /\ Quiet
    \/ TickNoPrices /\ Quiet
    \/ (\E prices_data \in PriceMaps(tick.ids) : TickPrices(prices_data)) /\ Quiet
    \/ TickOrder /\ Quiet
    \/ (\E fetched \in PriceResults : TickCloseResume(fetched)) /\ Quiet
    \/ TickNotified /\ Quiet
    \/ TickNotifyFailed /\ Quiet
    \/ TickFinish /\ Quiet
    \/ \E t \in DOMAIN tasks :
        \/ (\E plan \in plans : TaskPlan(t, plan)) /\ Quiet
        \/ TaskValidate(t) /\ Quiet
        \/ TaskHandler(t) /\ Quiet
        \/ (\E fetched \in PriceResults : TaskResume(t, fetched)) /\ Quiet

Step(plans) == StepOn(plans, Allocations)

Next == Step(OraclePlans)

Spec == Init /\ [][Next]_vars

\* The driver never stops waking up (run_periodic_updates loops for ever), the
\* synchronous stretches of a coroutine run to their next await, an await
\* returns, and the price service and the notification sink do not fail for
\* ever.
\* The plans are limited to those that matter to the scheduler: none, and one
\* that empties the portfolio, one that leaves an order for the monitor.
LivePlans == {None, <<CloseLong>>, <<SetTakeProfit>>}

LiveNext == Step(LivePlans) \/ (TickStartLate /\ Quiet)

\* TickPrices, TickCloseResume and TickFinish, each told by its guard and by
\* what it does to the control state, which no other action does from there
\* (the fairness conditions below are on these and on the state they change)
PricesArrive ==
    /\ running = Nobody /\ tick.pc = "fetch" /\ investment_sessions # 0
    /\ running' = Driver

CloseReturns ==
    /\ running = Nobody /\ tick.pc = "close_price"
    /\ tick' \in {IdleTick, [tick EXCEPT !.pc = "notify", !.pos = None,
                                         !.fired = @ \cup {tick.i}]}

PassFinishes ==
    /\ running = Driver /\ tick.pc = "orders" /\ tick.i > Len(tick.orders)
    /\ tick' = IdleTick /\ running' = Nobody

\* an await of the command handler returns (CmdStrategy, CmdAllocate, CmdSettled)
CommandReturns ==
    /\ running = Nobody /\ cmd.pc # "idle"
    /\ cmd' \in {[cmd EXCEPT !.pc = "idle", !.session = 0],
                 [cmd EXCEPT !.pc = "alloc_price"]}

Fairness ==
    /\ WF_cmd(CommandReturns)
    /\ WF_engine(TickStart \/ TickStartLate)
    /\ SF_running(PricesArrive)
    /\ WF_engine(TickOrder)
    /\ WF_tick(CloseReturns)
    /\ SF_engine(TickNotified)
    /\ WF_tick(PassFinishes)
    /\ WF_engine(\E t \in DOMAIN tasks : TaskValidate(t) \/ TaskHandler(t))

LiveSpec == Init /\ [][LiveNext]_vars /\ Fairness

\* A longer run of the driver, long enough for three dispatches, with the
\* plans limited to none, one that leaves an order for the monitor and one
\* whose handler awaits a price and fails when there is none.
GatePlans == {None, <<SetTakeProfit>>, <<BuySpot>>}

\* and the allocations to none, one long and one short
GateAllocations ==
    {[spot |-> <<>>, futures |-> <<>>],
     [spot |-> <<>>, futures |-> <<FuturesAlloc(Q(5), Long)>>],
     [spot |-> <<>>, futures |-> <<FuturesAlloc(Q(2), Short)>>]}

GateNext == StepOn(GatePlans, GateAllocations) \/ (TickStartOn /\ Quiet)

GateSpec == Init /\ [][GateNext]_vars

\* The user may start a second simulation; the plans are those of the longer
\* run and one that fails its validation.
RestartPlans == GatePlans \cup {<<OpenLongOverLeveraged>>}

RestartNext ==
    \/ StepOn(RestartPlans, GateAllocations)
    \/ (\E initial_funds \in InitialFundsSet : CmdStartAgain(initial_funds)) /\ Quiet

RestartSpec == Init /\ [][RestartNext]_vars

\* The save timer and the shutdown of the plugin, with the plans limited to
\* none, one of two actions that each await a price, and one that leaves an
\* order for the monitor.

\* _periodic_save_sessions wakes up (lines 1585-1590)
PeriodicSave ==
    /\ running = Nobody /\ tick.pc # "cancelled" /\ investment_sessions # 0
    /\ sessions_file' = heap[investment_sessions]
    /\ UNCHANGED <<engine, parser>>

\* terminate: the file is written, then the driver and the save timer are
\* cancelled where they wait; the rebalance tasks are not
Terminate ==
    /\ running = Nobody /\ tick.pc # "cancelled"
    /\ sessions_file' = IF investment_sessions = 0 THEN None ELSE heap[investment_sessions]
    /\ tick' = [IdleTick EXCEPT !.pc = "cancelled"]
    /\ UNCHANGED <<investment_sessions, heap, now, running, cmd, tasks, monitor_removed,
                   parser>>

SavePlans == {None, <<BuySpot, DecreaseLeverage>>, <<SetTakeProfit>>}

SaveNext == Step(SavePlans) \/ PeriodicSave \/ Terminate

SaveSpec == Init /\ [][SaveNext]_vars

\* The parser alone: every text of Texts against every schema.
ParseInit ==
    /\ investment_sessions = 0
    /\ heap = <<>>
    /\ now = 0
    /\ running = Nobody
    /\ cmd = IdleCmd
    /\ tick = IdleTick
    /\ tasks = <<>>
    /\ monitor_removed = {}
    /\ sessions_file = None
    /\ parser \in {[IdleParser EXCEPT !.pc = "called", !.completion_text = text,
                                      !.schema = schema] :
                        text \in Texts, schema \in Schemas}

ParseReturn ==
    /\ parser.pc = "called"
    /\ parser' = [parser EXCEPT !.pc = "returned",
                                !.result = Parse(parser.completion_text,
                                                 SchemaOf(parser.schema))]
    /\ UNCHANGED <<engine, sessions_file>>

ParseNext == ParseReturn

ParseSpec == ParseInit /\ [][ParseNext]_vars

\* ------------------------------------------------------- properties
\* the portfolio stored for the user (only read where investment_sessions # 0)
Stored == heap[investment_sessions]

RolledBackNow(t) == tasks[t].pc # "rolled_back" /\ tasks'[t].pc = "rolled_back"
CompletedNow(t) == tasks[t].pc # "done" /\ tasks'[t].pc = "done"

\* C1: a plan is all-or-nothing. In the step in which a plan fails (validation,
\* handler failure or exception, unknown action) the portfolio stored for the
\* user, if one is still stored, equals the portfolio as it was when the plan
\* started; a plan that completes has had every one of its actions applied.
C1_AllOrNothing ==
    [][\A t \in DOMAIN tasks :
        /\ RolledBackNow(t) /\ investment_sessions' # 0
              => heap'[investment_sessions'] = tasks[t].before
        /\ CompletedNow(t) => tasks'[t].applied = Len(tasks[t].plan)]_vars

\* C1 witness: the plan [BUY_SPOT, OPEN_SHORT 200%] failed at its second
\* action after the purchase had changed the session, and the stored
\* portfolio is the one from before the plan
C1_Witness ==
    \E t \in DOMAIN tasks :
        /\ tasks[t].pc = "rolled_back" /\ tasks[t].plan = <<BuySpot, OpenShortTwice>>
        /\ tasks[t].i = 2
        /\ heap[tasks[t].session].spot_positions[2] # tasks[t].before.spot_positions[2]
        /\ investment_sessions # 0 /\ Stored = tasks[t].before

TickMutating(o) == tick.session = o /\ tick.pc \in {"orders", "close_price", "notify"}
TaskMutating(t, o) == tasks[t].session = o /\ tasks[t].pc \in {"validate", "handler", "price"}
CmdMutating(o) == cmd.session = o /\ cmd.pc \in {"strategy", "alloc_price", "settle"}

Mutators(o) ==
    {t \in DOMAIN tasks : TaskMutating(t, o)}
        \cup (IF TickMutating(o) THEN {Driver} ELSE {})
        \cup (IF CmdMutating(o) THEN {Command} ELSE {})

\* C2: at any time at most one of the monitor pass of a tick, a rebalance
\* transaction and a start or settlement command is in progress (begun and
\* not yet finished) on the same portfolio
C2_OneMutator == \A o \in DOMAIN heap : Cardinality(Mutators(o)) <= 1

\* C3: a futures position that the monitor removed (liquidation or
\* conditional close) is never again in the stored portfolio
C3_MonitorRemovalIsFinal ==
    investment_sessions # 0 =>
        \A c \in Coins : Stored.futures_positions[c] # None
                            => Stored.futures_positions[c].id \notin monitor_removed

\* the step is the successful end of the handler of an action of task t
HandlerSucceeded(t) ==
    tasks[t].pc \in {"handler", "price"} /\ tasks'[t].pc = "validate"

ActionOf(t) == tasks[t].plan[tasks[t].i]

MarginUsage(session) == QDiv(session.margin_used, session.current_funds)

\* C4: when a validated OPEN_LONG / OPEN_SHORT executes on a portfolio whose
\* margin usage is at most 25%, in a plan that started at most at 25%, the
\* margin usage after it is still at most 25%
C4_MarginCeiling ==
    [][\A t \in DOMAIN tasks :
        /\ HandlerSucceeded(t)
        /\ ActionOf(t).action \in {"OPEN_LONG", "OPEN_SHORT"}
        /\ QLe(MarginUsage(tasks[t].before), MarginCeiling)
        /\ QLe(MarginUsage(heap[tasks[t].session]), MarginCeiling)
        => QLe(MarginUsage(heap'[tasks[t].session]), MarginCeiling)]_vars

\* C5: after an action that passed validation and reduced cash, cash is at
\* least 10% of current_funds
C5_CashFloor ==
    [][\A t \in DOMAIN tasks :
        /\ HandlerSucceeded(t)
        /\ QLt(heap'[tasks[t].session].cash, heap[tasks[t].session].cash)
        => QLe(QMul(CashFloor, heap'[tasks[t].session].current_funds),
               heap'[tasks[t].session].cash)]_vars

\* pos['value'] of a spot position; a position bought by BUY_SPOT has no such
\* key and counts at cost
SpotValue(pos) == IF pos.value = None THEN QMul(pos.amount, pos.entry_price) ELSE pos.value

NetWorth(session) ==
    QAdd(QAdd(session.cash,
              QSum([c \in Coins |-> IF session.spot_positions[c] = None THEN Zero
                                    ELSE SpotValue(session.spot_positions[c])], Coins)),
         QAdd(session.margin_used,
              QSum([c \in Coins |-> IF session.futures_positions[c] = None THEN Zero
                                    ELSE session.futures_positions[c].pnl], Coins)))

NetWorthHolds(session) == session.current_funds = NetWorth(session)

\* C6: after the initial allocation, after each successful action handler,
\* after each conditional close and at the end of each monitor pass,
\* current_funds = cash + sum of spot values + margin_used + sum of futures pnl
C6_NetWorth ==
    [][/\ cmd.pc = "alloc_price" /\ cmd'.pc = "idle" => NetWorthHolds(heap'[cmd.session])
       /\ \A t \in DOMAIN tasks :
            HandlerSucceeded(t) => NetWorthHolds(heap'[tasks[t].session])
       /\ tick.pc = "close_price" /\ tick'.pc = "notify" => NetWorthHolds(heap'[tick.session])
       /\ tick.pc = "orders" /\ tick'.pc = "idle" => NetWorthHolds(heap'[tick.session])]_vars

MarginSum(session) ==
    QSum([c \in Coins |-> IF session.futures_positions[c] = None THEN Zero
                          ELSE session.futures_positions[c].margin], Coins)

\* C7: in every state the stored portfolio's margin_used is the sum of the
\* margins of its open futures positions
C7_MarginUsed == investment_sessions # 0 => Stored.margin_used = MarginSum(Stored)

OppositeHeld(session, action) ==
    /\ action.action \in {"OPEN_LONG", "OPEN_SHORT"}
    /\ session.futures_positions[action.coin] # None
    /\ session.futures_positions[action.coin].side # Side(action.action)

\* C8: a futures position keeps its side as long as it is held under its
\* coin, and an OPEN_LONG / OPEN_SHORT whose handler finds a position of the
\* opposite side on the coin fails at once and leaves the session it was
\* given unchanged
C8_OneSidePerCoin ==
    [][/\ \A o \in DOMAIN heap : \A c \in Coins :
            /\ heap[o].futures_positions[c] # None
            /\ heap'[o].futures_positions[c] # None
            /\ heap'[o].futures_positions[c].id = heap[o].futures_positions[c].id
            => heap'[o].futures_positions[c].side = heap[o].futures_positions[c].side
       /\ \A t \in DOMAIN tasks :
            /\ tasks[t].pc = "handler"
            /\ OppositeHeld(heap[tasks[t].session], ActionOf(t))
            => /\ tasks'[t].pc = "rolled_back"
               /\ heap'[tasks[t].session] = heap[tasks[t].session]]_vars

\* C8 witness: OPEN_SHORT was rejected on a coin that holds a long position
C8_Witness ==
    \E t \in DOMAIN tasks :
        /\ tasks[t].pc = "rolled_back" /\ tasks[t].error = "rejected"
        /\ OppositeHeld(heap[tasks[t].session], ActionOf(t))

Crossed(pos, price) ==
    \/ pos.side = Long /\ QLe(price, pos.liquidation_price)
    \/ pos.side = Short /\ QLe(pos.liquidation_price, price)

\* C9: the liquidation pass of a tick leaves no futures position on a coin
\* for which the tick has a price if the position's margin ratio at that price
\* is at most 1 or the price has crossed its liquidation price
C9_LiquidationDetection ==
    [][tick.pc = "fetch" /\ tick'.pc = "orders" =>
        \A c \in Coins :
            LET pos == heap'[tick'.session].futures_positions[c]
                price == tick'.prices_data[c]
            IN  pos # None /\ price # None =>
                    /\ ~QLe(calculate_margin_ratio(pos, price), One)
                    /\ ~Crossed(pos, price)]_vars

\* C9 witness: the 5x long opened at 50000 was liquidated by a tick at 40000
C9_Witness ==
    /\ tick.pc = "orders" /\ tick.prices_data[1] = Usd(40000)
    /\ heap[tick.session].suggested_allocation.futures = <<FuturesAlloc(Q(5), Long)>>
    /\ heap[tick.session].futures_positions[1] = None
    /\ <<"f", -1, 1>> \in monitor_removed

\* C10: the validation of every action of a plan is decided against the
\* session as the earlier actions of the plan left it: the action is refused
\* with a validation error exactly when it fails against the live session
C10_ValidatedAgainstLive ==
    [][\A t \in DOMAIN tasks :
        tasks[t].pc = "validate" /\ tasks[t].i <= Len(tasks[t].plan) =>
            ((tasks'[t].pc = "rolled_back" /\ tasks'[t].error = "validation")
                <=> ~ValidationPasses(ActionOf(t), heap[tasks[t].session]))]_vars

\* C10 witness: the second OPEN_LONG of [OPEN_LONG, OPEN_LONG] was refused
\* for the margin ceiling although it passes against the pre-plan portfolio
C10_Witness ==
    \E t \in DOMAIN tasks :
        /\ tasks[t].pc = "rolled_back" /\ tasks[t].error = "validation"
        /\ tasks[t].plan = <<OpenLong, OpenLong>> /\ tasks[t].i = 2
        /\ ValidationPasses(OpenLong, tasks[t].before)
        /\ MarginRuleBroken(OpenLong, heap[tasks[t].session])

\* the three defects of an action's parameters: a field its type requires is
\* absent, a percentage field is outside [0,100], leverage is outside [1,100]
LacksRequiredField(action) ==
    \/ action.action = "BUY_SPOT"
          /\ ~({"coin", "percentage_of_cash"} \subseteq DOMAIN action)
    \/ action.action = "SELL_SPOT"
          /\ ~({"coin", "percentage_of_holding"} \subseteq DOMAIN action)
    \/ action.action \in {"OPEN_LONG", "OPEN_SHORT"}
          /\ ~({"coin", "percentage_of_cash", "leverage"} \subseteq DOMAIN action)
    \/ action.action \in {"CLOSE_LONG", "CLOSE_SHORT"} /\ "coin" \notin DOMAIN action
    \/ action.action = "ADD_MARGIN"
          /\ ~({"coin", "percentage_of_cash"} \subseteq DOMAIN action)
    \/ action.action = "REDUCE_MARGIN"
          /\ ~({"coin", "percentage_of_margin"} \subseteq DOMAIN action)
    \/ action.action \in {"INCREASE_LEVERAGE", "DECREASE_LEVERAGE"}
          /\ ~({"coin", "new_leverage"} \subseteq DOMAIN action)
    \/ action.action = "SET_STOP_LOSS" /\ ~({"coin", "stop_price"} \subseteq DOMAIN action)
    \/ action.action = "SET_TAKE_PROFIT" /\ ~({"coin", "target_price"} \subseteq DOMAIN action)

PercentageOutOfRange(action) ==
    \E f \in {"percentage_of_cash", "percentage_of_holding", "percentage_of_margin"} :
        f \in DOMAIN action /\ (QLt(action[f], Zero) \/ QLt(Hundred, action[f]))

LeverageOutOfRange(action) ==
    "leverage" \in DOMAIN action
        /\ (QLt(action.leverage, One) \/ QLt(Hundred, action.leverage))

InvalidParameters(action) ==
    LacksRequiredField(action) \/ PercentageOutOfRange(action) \/ LeverageOutOfRange(action)

InOrdersPhase == tick.pc \in {"orders", "close_price", "notify"}

\* C12: within one pass of the monitor over a portfolio the liquidations come
\* first. The liquidation step credits no cash; while the pending orders are
\* evaluated no position liquidated in this pass is in the portfolio the pass
\* works on, the position an order fires against was not liquidated in this
\* pass, and the orders phase liquidates nothing more.
C12_LiquidationsFirst ==
    [][/\ (tick.pc = "fetch" /\ tick'.pc = "orders")
            => heap'[tick'.session].cash = heap[tick'.session].cash
       /\ InOrdersPhase'
            => \A c \in Coins :
                 heap'[tick'.session].futures_positions[c] # None
                    => heap'[tick'.session].futures_positions[c].id \notin tick'.liquidated
       /\ (tick.pc = "orders" /\ tick'.pc = "close_price")
            => tick'.pos.id \notin tick.liquidated
       /\ (InOrdersPhase /\ InOrdersPhase') => tick'.liquidated = tick.liquidated]_vars

\* a pass liquidated a position and then met the position's pending order,
\* which it marked for removal without closing anything
C12_Witness ==
    /\ tick.pc = "orders"
    /\ tick.liquidated # {}
    /\ \E k \in 1..Len(tick.triggered) :
          /\ tick.triggered[k] < tick.i
          /\ heap[tick.session].futures_positions[tick.orders[tick.triggered[k]].coin] = None
    /\ \A id \in tick.liquidated : id \in monitor_removed

\* a pass of the monitor ends in this step (a pass that finds nothing to price
\* begins and ends in one step)
TickEnds ==
    \/ tick.pc # "idle" /\ tick'.pc = "idle"
    \/ tick.pc = "idle" /\ now' = now + 1 /\ tick'.pc = "idle"

\* the orders that had no position when the pass that ends now began
OrphansAtStart ==
    IF tick.pc # "idle" THEN tick.orphans
    ELSE IF investment_sessions # 0 THEN OrphanOrders(Stored) ELSE {}

\* C13: a pending order whose futures position is gone does not outlive the
\* next pass of the monitor: when a pass ends, no order that had no open
\* position on its coin when the pass began is still pending without one.
C13_OrphanOrdersRemoved ==
    [][(TickEnds /\ investment_sessions' # 0)
          => OrphansAtStart \cap OrphanOrders(heap'[investment_sessions']) = {}]_vars

SameOrderKey(a, b) == a.coin = b.coin /\ a.type = b.type

OneOrderPerKey(orders) ==
    \A j, k \in DOMAIN orders : j # k => ~SameOrderKey(orders[j], orders[k])

OrderTypeOf(action) == IF action.action = "SET_STOP_LOSS" THEN "STOP_LOSS" ELSE "TAKE_PROFIT"

\* the step in which the handler of task t's current action returns a success
SucceedsNow(t) ==
    /\ tasks[t].pc = "handler"
    /\ tasks'[t].applied = tasks[t].applied + 1

\* the orders of list other than those of the given coin and type, in order
OtherOrders(list, coin, type) ==
    SelectSeq(list, LAMBDA o : ~(o.coin = coin /\ o.type = type))

\* C14: every portfolio, stored or held by a coroutine, has at most one
\* STOP_LOSS and at most one TAKE_PROFIT pending per coin; a SET_STOP_LOSS or
\* SET_TAKE_PROFIT that succeeds leaves exactly one order of its coin and
\* type, the new one, and leaves the other orders as they were.
C14_OneOrderPerCoinAndType ==
    [][/\ \A o \in DOMAIN heap' : OneOrderPerKey(heap'[o].pending_orders)
       /\ \A t \in DOMAIN tasks :
            (SucceedsNow(t)
               /\ tasks[t].plan[tasks[t].i].action \in {"SET_STOP_LOSS", "SET_TAKE_PROFIT"})
            => LET action == tasks[t].plan[tasks[t].i]
                   type == OrderTypeOf(action)
                   old == heap[tasks[t].session].pending_orders
                   new == heap'[tasks[t].session].pending_orders
                   mine == SelectSeq(new, LAMBDA o : o.coin = action.coin /\ o.type = type)
               IN  /\ Len(mine) = 1
                   /\ mine[1].price = IF type = "STOP_LOSS" THEN action.stop_price
                                      ELSE action.target_price
                   /\ OtherOrders(new, action.coin, type) = OtherOrders(old, action.coin, type)]_vars

\* a stop-loss was replaced by a new one while a take-profit of the same coin
\* stayed pending
C14_Witness ==
    \E t \in DOMAIN tasks :
        /\ tasks[t].pc = "done" /\ tasks[t].applied = 3
        /\ tasks[t].plan[3] = SetStopLossLower
        /\ investment_sessions # 0
        /\ \E j, k \in DOMAIN Stored.pending_orders :
              /\ Stored.pending_orders[j].type = "TAKE_PROFIT"
              /\ Stored.pending_orders[k].type = "STOP_LOSS"
              /\ Stored.pending_orders[k].price = SetStopLossLower.stop_price
        /\ Len(Stored.pending_orders) = 2

\* the price of a SET_STOP_LOSS / SET_TAKE_PROFIT action
OrderPriceOf(action) ==
    IF action.action = "SET_STOP_LOSS" THEN action.stop_price ELSE action.target_price

\* the order's price is not on the side of the position's current price that
\* its type asks for
WrongSideOfPrice(action, pos) ==
    IF action.action = "SET_STOP_LOSS"
    THEN \/ pos.side = Long /\ ~QLt(action.stop_price, pos.current_price)
         \/ pos.side = Short /\ ~QLt(pos.current_price, action.stop_price)
    ELSE \/ pos.side = Long /\ ~QLt(pos.current_price, action.target_price)
         \/ pos.side = Short /\ ~QLt(action.target_price, pos.current_price)

\* C15: when the handler of SET_STOP_LOSS or SET_TAKE_PROFIT runs, the action
\* is rejected (the plan fails and the session is left as it was, its pending
\* orders included) when the coin has no futures position or the price is on
\* the wrong side of the position's current price: a stop at or above it for
\* a long, at or below it for a short; a target at or below it for a long, at
\* or above it for a short. Otherwise it is accepted and its order is pending
\* at its price. A stop of 52000 on a long priced 50000 is rejected, a stop
\* of 48000 accepted.
C15_ConditionalOrderPriceSide ==
    [][\A t \in DOMAIN tasks :
          (/\ tasks[t].pc = "handler" /\ tasks'[t] # tasks[t]
           /\ tasks[t].plan[tasks[t].i].action \in {"SET_STOP_LOSS", "SET_TAKE_PROFIT"})
          => LET action == tasks[t].plan[tasks[t].i]
                 session == heap[tasks[t].session]
                 pos == session.futures_positions[action.coin]
                 rejected == pos = None \/ WrongSideOfPrice(action, pos)
             IN  /\ rejected
                      => /\ tasks'[t].pc = "rolled_back"
                         /\ heap'[tasks[t].session] = session
                 /\ ~rejected
                      => /\ SucceedsNow(t)
                         /\ \E k \in DOMAIN heap'[tasks[t].session].pending_orders :
                              LET order == heap'[tasks[t].session].pending_orders[k]
                              IN  /\ order.coin = action.coin
                                  /\ order.type = OrderTypeOf(action)
                                  /\ order.price = OrderPriceOf(action)
                 /\ (pos # None /\ pos.side = Long /\ pos.current_price = Usd(50000))
                      => /\ action = SetStopLoss52000 => tasks'[t].pc = "rolled_back"
                         /\ action = SetStopLoss48000 => SucceedsNow(t)]_vars

\* a stop of 52000 on a long priced 50000 was rejected and no order is pending
C15_Witness ==
    \E t \in DOMAIN tasks :
        /\ tasks[t].pc = "rolled_back" /\ tasks[t].error = "failed"
        /\ tasks[t].plan[tasks[t].i] = SetStopLoss52000
        /\ heap[tasks[t].session].futures_positions[1] # None
        /\ heap[tasks[t].session].futures_positions[1].side = Long
        /\ heap[tasks[t].session].futures_positions[1].current_price = Usd(50000)
        /\ heap[tasks[t].session].pending_orders = <<>>

\* the firing rule of a pending order against a position at a price
ShouldFire(order, pos, price) ==
    \/ order.type = "STOP_LOSS"
          /\ (\/ pos.side = Long /\ QLe(price, order.price)
              \/ pos.side = Short /\ QLe(order.price, price))
    \/ order.type = "TAKE_PROFIT"
          /\ (\/ pos.side = Long /\ QLe(order.price, price)
              \/ pos.side = Short /\ QLe(price, order.price))

\* a step of the pass that evaluates the order at tick.i against an open
\* position at a price: the order fires exactly when the rule says so
FiresAsStated ==
    (tick.pc = "orders" /\ tick.i <= Len(tick.orders) /\ tick' # tick)
    => LET order == tick.orders[tick.i]
           price == tick.prices_data[order.coin]
           pos == heap[tick.session].futures_positions[order.coin]
       IN  (price # None /\ pos # None)
           => (tick'.pc = "close_price" <=> ShouldFire(order, pos, price))

\* the step that completes the close of a fired order: the position's margin
\* and PnL are credited, its margin released, the position removed
ClosesAsStated ==
    (tick.pc = "close_price" /\ tick' # tick)
    => LET o == tick.session
           coin == tick.orders[tick.i].coin
           pos == heap[o].futures_positions[coin]
       IN  /\ pos # None
           /\ heap'[o].futures_positions[coin] = None
           /\ heap'[o].margin_used = QSub(heap[o].margin_used, pos.margin)
           /\ \E price \in PriceSet \cup {pos.current_price} :
                 heap'[o].cash = QAdd(heap[o].cash,
                                      QAdd(pos.margin, calculate_futures_pnl(pos, price)))

\* the step that ends a pass: the orders that fired are no longer pending,
\* and the orders the step takes out are those the pass marked
RemovesAsStated ==
    (InOrdersPhase /\ tick'.pc = "idle")
    => LET o == tick.session
           old == heap[o].pending_orders
           new == heap'[o].pending_orders
           marked == {tick.orders[k] : k \in {j \in DOMAIN tick.orders :
                         \E m \in DOMAIN tick.triggered : tick.triggered[m] = j}}
       IN  /\ \A k \in tick.fired : \A j \in DOMAIN new : new[j] # tick.orders[k]
           /\ new = SelectSeq(old, LAMBDA order : order \notin marked)

\* C16: in a pass of the monitor an order whose position is open and whose
\* coin has a price fires exactly when the price has reached its stop (at or
\* below it for a long, at or above it for a short) or its target (at or above
\* it for a long, at or below it for a short); the fired order's position is
\* closed (cash gets margin plus PnL, margin_used gives up the margin, the
\* position is removed) and the order is removed; the orders that did not
\* fire stay pending as they were.
C16_ConditionalOrderFiring ==
    [][FiresAsStated /\ ClosesAsStated /\ RemovesAsStated]_vars

\* the user's portfolio is due for a rebalance: its cooldown has elapsed
\* since the last dispatch
Due == investment_sessions # 0 /\ CooldownElapsed(Stored, now)

\* C17: once the cooldown of a live portfolio has elapsed, a rebalance is
\* eventually dispatched for it (which restarts the cooldown) or the portfolio
\* is settled, whatever the portfolio holds, as long as the driver keeps
\* waking up.
C17_SchedulerLiveness == Due ~> ~Due

\* C18: the rebalances dispatched for a user's portfolio are more than a
\* cooldown period apart: of any two tasks, the later was dispatched more
\* than CooldownPeriod after the earlier.
C18_CooldownGating ==
    \A t1, t2 \in DOMAIN tasks :
        t1 < t2 => tasks[t2].at - tasks[t1].at > CooldownPeriod

\* the price a position on coin c is valued at in a pass with these prices:
\* the coin's price, or for want of one the position's last known price
ValuationPrice(prices_data, c, pos) ==
    IF prices_data[c] # None THEN prices_data[c]
    ELSE IF pos.current_price # None THEN pos.current_price ELSE pos.entry_price

RECURSIVE WorthUpTo(_, _, _)
WorthUpTo(session, prices_data, c) ==
    IF c = 0 THEN Zero
    ELSE LET spot == session.spot_positions[c]
             fut == session.futures_positions[c]
             spot_worth == IF spot = None THEN Zero
                           ELSE QMul(spot.amount, ValuationPrice(prices_data, c, spot))
             fut_pnl == IF fut = None THEN Zero
                        ELSE calculate_futures_pnl(fut, ValuationPrice(prices_data, c, fut))
         IN  QAdd(WorthUpTo(session, prices_data, c - 1), QAdd(spot_worth, fut_pnl))

\* C19: in a pass whose prices lack a coin, the futures position on that coin
\* is left as it was by the liquidation step (same price, same PnL, still
\* there) and no order fires on it, while a position whose coin has a price
\* is liquidated or gets that price and its PnL at that price; when the pass
\* recomputes current_funds, each position without a price counts at its last
\* known price.
C19_PartialPrices ==
    [][/\ (tick.pc = "fetch" /\ tick'.pc = "orders")
            => LET o == tick'.session
                   prices_data == tick'.prices_data
               IN  \A c \in Coins :
                     LET pos == heap[o].futures_positions[c]
                         after == heap'[o].futures_positions[c]
                     IN  /\ prices_data[c] = None => after = pos
                         /\ (prices_data[c] # None /\ pos # None)
                              => \/ after = None /\ check_position_risk(pos, prices_data[c])
                                 \/ /\ after # None
                                    /\ after.current_price = prices_data[c]
                                    /\ after.pnl = calculate_futures_pnl(pos, prices_data[c])
       /\ (tick.pc = "orders" /\ tick'.pc = "close_price")
            => tick.prices_data[tick.orders[tick.i].coin] # None
       /\ (tick.pc = "orders" /\ tick'.pc = "idle"
              /\ ~DeleteTriggered(heap[tick.session].pending_orders, tick.triggered).raised)
            => LET o == tick.session IN
               /\ heap'[o].futures_positions = heap[o].futures_positions
               /\ heap'[o].current_funds =
                     QAdd(QAdd(heap[o].cash, heap[o].margin_used),
                          WorthUpTo(heap[o], tick.prices_data, NumCoins))]_vars

\* a pass got a price for coin 2 and none for coin 1: the position on coin 2
\* carries the new price, the one on coin 1 still the price of an earlier pass
C19_Witness ==
    /\ tick.pc = "orders"
    /\ tick.prices_data[1] = None /\ tick.prices_data[2] # None
    /\ LET fp == heap[tick.session].futures_positions
       IN  /\ fp[1] # None /\ fp[2] # None
           /\ fp[1].current_price # fp[1].entry_price
           /\ fp[2].current_price = tick.prices_data[2]
           /\ fp[2].current_price # fp[2].entry_price

\* the object has the schema's required fields, and each field of the schema
\* it has is of the schema's type, within the schema's bounds and, where the
\* schema describes its fields, satisfies that description in turn
RECURSIVE SatisfiesSchema(_, _)
SatisfiesSchema(object, schema) ==
    /\ object.type = "dict"
    /\ \A i \in DOMAIN schema.required : schema.required[i] \in DOMAIN object.v
    /\ \A field \in DOMAIN schema.fields \cap DOMAIN object.v :
        LET value == object.v[field]
            rules == schema.fields[field]
        IN  /\ value.type \in rules.type
            /\ "min" \in DOMAIN rules => value.type = "int" /\ rules.min <= value.v
            /\ "max" \in DOMAIN rules => value.type = "int" /\ value.v <= rules.max
            /\ "fields" \in DOMAIN rules => SatisfiesSchema(value, rules)

ParsedObject == Loads(CleanJsonText(parser.completion_text))
ParsedObjectValidates ==
    /\ ParsedObject.exception = "none"
    /\ SatisfiesSchema(ParsedObject.value, SchemaOf(parser.schema))

\* C20: for any text and any of the three schemas, parse does not raise and
\* returns an object that satisfies the schema's required fields, types and
\* bounds: the parsed object when it validates, otherwise the schema's fallback
\* object.
C20_ParseSatisfiesSchema ==
    parser.pc = "returned"
        => /\ parser.result.exception = "none"
           /\ SatisfiesSchema(parser.result.value, SchemaOf(parser.schema))
           /\ parser.result.value = IF ParsedObjectValidates THEN ParsedObject.value
                                    ELSE GetFallbackResponse(SchemaOf(parser.schema))

\* C21: when the oracle gives no plan (the call failed, there is no
\* provider) or the parser's fallback plan, whose only action is HOLD, the
\* rebalance returns at once: the step that receives the plan changes no
\* portfolio and no stored entry, the plan is never put through a transaction,
\* and the task takes no further step.
C21_NoPlanLeavesPortfolio ==
    /\ NoPlan(None) /\ NoPlan(FallbackPlan)
    /\ Len(FallbackPlan) = 1 /\ FallbackPlan[1].action = "HOLD"
    /\ [][\A t \in DOMAIN tasks :
            /\ (tasks[t].pc = "oracle" /\ tasks'[t].pc # "oracle" /\ NoPlan(tasks'[t].plan))
                  => /\ tasks'[t].pc = "held"
                     /\ heap' = heap
                     /\ investment_sessions' = investment_sessions
            /\ tasks[t].pc = "held" => tasks'[t] = tasks[t]]_vars

\* the fallback plan was received for a portfolio that holds a futures position
C21_Witness ==
    \E t \in DOMAIN tasks :
        /\ tasks[t].pc = "held" /\ tasks[t].plan = FallbackPlan
        /\ \E coin \in Coins : heap[tasks[t].session].futures_positions[coin] # None

\* the notification of a conditional close has failed: send_message raised
SinkFailsNow == tick.pc = "notify" /\ tick'.pc = "idle"

\* the close that was to be notified is not undone by the failure
CloseKept == SinkFailsNow => heap' = heap /\ investment_sessions' = investment_sessions

\* the rest of the pass has taken place when the pass ends
PassCompleted ==
    SinkFailsNow
    => LET session == heap'[tick.session]
       IN  /\ \A j \in DOMAIN session.pending_orders :
                  session.pending_orders[j] # tick.orders[tick.i]
           /\ session.current_funds = calculate_total_assets(session, tick.prices_data)

\* C22: a failure of the notification sink after a conditional close does
\* not undo the close, and the rest of the same pass still takes place: the
\* order that fired is removed from pending_orders and current_funds is
\* recomputed from the prices of the pass.
C22_SinkFailureHarmless == [][CloseKept /\ PassCompleted]_vars

\* the file of sessions is written with the portfolio stored for the user
WrittenNow == sessions_file' # sessions_file /\ sessions_file' # None

\* the plugin is shut down
CancelledNow == tick.pc # "cancelled" /\ tick'.pc = "cancelled"

\* a rebalance plan of the portfolio o is in flight with some of its actions
\* applied and the others still to come
MidPlan(all, o) ==
    \E t \in DOMAIN all :
        /\ all[t].session = o
        /\ all[t].pc \in {"validate", "handler", "price"}
        /\ all[t].applied > 0

\* C23: a snapshot written to the file of sessions, and the portfolio left in
\* memory when the plugin is shut down, never hold the effects of a prefix of a
\* rebalance plan that is still in flight (and so may yet be rolled back).
C23_SnapshotsBetweenUnits ==
    [][((WrittenNow \/ CancelledNow) /\ investment_sessions' # 0)
          => ~MidPlan(tasks', investment_sessions')]_vars

\* the step is the successful end of an OPEN_LONG / OPEN_SHORT of task t on a
\* coin that had no futures position when the handler started
OpensOnFreeCoin(t) ==
    /\ tasks[t].pc = "price" /\ HandlerSucceeded(t)
    /\ ActionOf(t).action \in {"OPEN_LONG", "OPEN_SHORT"}
    /\ tasks[t].pos = None
    /\ heap[tasks[t].session].futures_positions[ActionOf(t).coin] = None

OpenMargin(t) ==
    QMul(heap[tasks[t].session].cash, QDiv(ActionOf(t).percentage_of_cash, Hundred))

\* the stated effect of the open of task t: the debit of cash, the credit of
\* margin_used and the fields of the new position
OpenEffect(t) ==
    LET old == heap[tasks[t].session]
        new == heap'[tasks[t].session]
        action == ActionOf(t)
        pos == new.futures_positions[action.coin]
        sign == IF action.action = "OPEN_LONG" THEN <<-1, 1>> ELSE One
    IN  /\ new.cash = QSub(old.cash, OpenMargin(t))
        /\ new.margin_used = QAdd(old.margin_used, OpenMargin(t))
        /\ pos # None
        /\ pos.margin = OpenMargin(t)
        /\ pos.value = QMul(OpenMargin(t), action.leverage)
        /\ pos.entry_price \in PriceSet
        /\ pos.amount = QDiv(pos.value, pos.entry_price)
        /\ pos.liquidation_price =
              QMul(pos.entry_price,
                   QAdd(One, QMul(sign, QDiv(<<1989, 2000>>, action.leverage))))

\* the open of task t is the one of the example: OPEN_LONG of 10% of a cash
\* of 10000 at leverage 5 and price 50000
OpenOfExample(t) ==
    /\ ActionOf(t) = OpenLongTenth
    /\ heap[tasks[t].session].cash = Usd(10000)
    /\ heap'[tasks[t].session].futures_positions[1] # None
    /\ heap'[tasks[t].session].futures_positions[1].entry_price = Usd(50000)

\* the position of the example has margin 1000, value 5000, amount 0.1 and a
\* liquidation price within 1 of about
ExampleFigures(t, about) ==
    LET pos == heap'[tasks[t].session].futures_positions[1]
    IN  /\ pos.margin = Usd(1000) /\ pos.value = Usd(5000) /\ pos.amount = <<1, 10>>
        /\ QLt(QSub(about, Usd(1)), pos.liquidation_price)
        /\ QLt(pos.liquidation_price, QAdd(about, Usd(1)))

\* C24 as stated: every successful OPEN_LONG / OPEN_SHORT on a coin with no
\* position debits cash by cash * pct / 100, adds it to margin_used and
\* creates a position of value margin * leverage, amount value / price,
\* entry price the price and liquidation price entry * (1 -/+ 0.9945 /
\* leverage); the example gives a liquidation price of about 40595
C24_OpenAsStated ==
    [][\A t \in DOMAIN tasks :
        OpensOnFreeCoin(t) =>
            /\ OpenEffect(t)
            /\ OpenOfExample(t) => ExampleFigures(t, Usd(40595))]_vars

\* C24: a successful OPEN_LONG / OPEN_SHORT on a coin with no position whose
\* margin cash * pct / 100 is positive debits cash by the margin, adds it to
\* margin_used and creates a position of value margin * leverage, amount
\* value / price, entry price the price and liquidation price entry * (1 -/+
\* 0.9945 / leverage); one whose margin is not positive changes nothing; the
\* example gives margin 1000, value 5000, amount 0.1 and a liquidation price
\* of 40055
C24_OpenCreatesPosition ==
    [][\A t \in DOMAIN tasks :
        OpensOnFreeCoin(t) =>
            IF QLt(Zero, OpenMargin(t))
            THEN /\ OpenEffect(t)
                 /\ OpenOfExample(t) => ExampleFigures(t, Usd(40055))
            ELSE heap'[tasks[t].session] = heap[tasks[t].session]]_vars

\* the open of the example was applied: the position of 1000 at leverage 5
\* opened at 50000 is in the portfolio
C24_Witness ==
    \E t \in DOMAIN tasks :
        /\ tasks[t].plan = <<CloseLong, OpenLongTenth>> /\ tasks[t].applied = 2
        /\ heap[tasks[t].session].futures_positions[1] # None
        /\ heap[tasks[t].session].futures_positions[1].margin = Usd(1000)
        /\ heap[tasks[t].session].futures_positions[1].entry_price = Usd(50000)
        /\ heap[tasks[t].session].futures_positions[1].id = <<"f", t, 2>>

\* the amount of coin held on the spot
SpotAmount(session, coin) ==
    IF session.spot_positions[coin] = None THEN Zero
    ELSE session.spot_positions[coin].amount

\* BUY_SPOT action at price, then SELL_SPOT at the same price of the part of
\* the holding that the buy added
RoundTrip(session, action, price, id) ==
    LET coin == action.coin
        bought == BuySpotResume(session, action, price, id).session
        amount == QSub(SpotAmount(bought, coin), SpotAmount(session, coin))
        sell == [action |-> "SELL_SPOT", coin |-> coin,
                 percentage_of_holding |->
                     QMul(QDiv(amount, SpotAmount(bought, coin)), Hundred)]
    IN  IF QLe(amount, Zero) THEN bought
        ELSE SellSpotResume(bought, sell, bought.spot_positions[coin], price).session

RECURSIVE RoundTrips(_, _, _, _, _)
RoundTrips(session, action, price, id, n) ==
    IF n = 0 THEN session
    ELSE RoundTrips(RoundTrip(session, action, price, id), action, price, id, n - 1)

\* C25: at every successful BUY_SPOT, from the portfolio it acts on and at
\* the price it bought at, the buy followed by the sale of the amount just
\* bought at the same price, repeated any number of times up to
\* MaxRoundTrips, leaves cash (and the amount held) as before the first buy
C25_SpotRoundTrip ==
    [][\A t \in DOMAIN tasks :
        tasks[t].pc = "price" /\ HandlerSucceeded(t) /\ ActionOf(t).action = "BUY_SPOT"
        => LET o == tasks[t].session
               id == <<"s", t, tasks[t].i>>
           IN  \E price \in PriceSet :
                 /\ heap'[o] = BuySpotResume(heap[o], ActionOf(t), price, id).session
                 /\ \A n \in 1..MaxRoundTrips :
                      LET after == RoundTrips(heap[o], ActionOf(t), price, id, n)
                      IN  /\ after.cash = heap[o].cash
                          /\ SpotAmount(after, ActionOf(t).coin)
                                = SpotAmount(heap[o], ActionOf(t).coin)]_vars

\* a plan bought coin 2 and then sold all of it, on a portfolio that held
\* none, and cash is what it was before the plan
C25_Witness ==
    \E t \in DOMAIN tasks :
        /\ tasks[t].plan = <<BuySpot, SellSpot>> /\ tasks[t].applied = 2
        /\ tasks[t].before.spot_positions[2] = None
        /\ heap[tasks[t].session].spot_positions[2] = None
        /\ heap[tasks[t].session].cash = tasks[t].before.cash

\* the futures positions stored in any session object
FuturesStored ==
    {heap[o].futures_positions[c] : o \in DOMAIN heap, c \in Coins} \ {None}

Factors == {Zero, <<1, 2>>, Q(2), Q(3)}
Leverages == {One, Q(2), Q(5), Q(100)}

\* C26: for every stored futures position and every price,
\* calculate_futures_pnl is (price - entry_price) * amount for a long and
\* (entry_price - price) * amount for a short; multiplying the amount by k
\* multiplies the result by k, and changing only the leverage field leaves
\* the result as it is
C26_FuturesPnl ==
    \A pos \in FuturesStored : \A price \in PriceSet \cup {Usd(30000), Usd(60000)} :
        LET pnl == calculate_futures_pnl(pos, price)
        IN  /\ pos.side = Long => pnl = QMul(QSub(price, pos.entry_price), pos.amount)
            /\ pos.side = Short => pnl = QMul(QSub(pos.entry_price, price), pos.amount)
            /\ \A k \in Factors :
                 calculate_futures_pnl([pos EXCEPT !.amount = QMul(k, pos.amount)], price)
                    = QMul(k, pnl)
            /\ \A leverage \in Leverages :
                 calculate_futures_pnl([pos EXCEPT !.leverage = leverage], price) = pnl

\* the monitor has valued a leveraged short position at a price above its
\* entry price: its pnl is the loss that calculate_futures_pnl gives
C26_Witness ==
    \E pos \in FuturesStored :
        /\ pos.side = Short /\ pos.leverage = Q(2)
        /\ pos.current_price # None /\ QLt(pos.entry_price, pos.current_price)
        /\ QLt(pos.pnl, Zero)
        /\ pos.pnl = calculate_futures_pnl(pos, pos.current_price)

\* the step is the liquidation pass of the monitor and it liquidates
LiquidatesNow ==
    tick.pc = "fetch" /\ tick'.pc = "orders" /\ tick'.liquidated_coins # {}

\* a position as the liquidation pass keeps it: only the price and the pnl
\* of the valuation may differ
SamePosition(old, new) ==
    new # None /\ [new EXCEPT !.current_price = old.current_price, !.pnl = old.pnl] = old

\* the liquidation itself: margin_used gives up the margins of the liquidated
\* positions, these positions are removed, cash, the spot positions, the
\* pending orders and the other futures positions stay
LiquidationFrame ==
    LiquidatesNow =>
        LET old == heap[tick'.session]
            new == heap'[tick'.session]
            liq == tick'.liquidated_coins
        IN  /\ new.margin_used =
                  QSub(old.margin_used,
                       QSum([c \in Coins |-> IF c \in liq THEN old.futures_positions[c].margin
                                             ELSE Zero], Coins))
            /\ new.cash = old.cash
            /\ new.spot_positions = old.spot_positions
            /\ \A c \in Coins :
                 IF c \in liq THEN old.futures_positions[c] # None
                                   /\ new.futures_positions[c] = None
                 ELSE old.futures_positions[c] = None
                        => new.futures_positions[c] = None
            /\ \A c \in Coins \ liq :
                 old.futures_positions[c] # None
                    => SamePosition(old.futures_positions[c], new.futures_positions[c])

\* the step ends a monitor pass that had reached the portfolio
PassEndsNow ==
    tick.pc \in {"orders", "close_price", "notify"} /\ tick'.pc = "idle"

\* when the pass ends, no pending order is left on a coin whose position the
\* pass liquidated (and that has no position now)
LiquidatedOrdersGone ==
    PassEndsNow =>
        \A c \in tick.liquidated_coins :
            heap'[tick.session].futures_positions[c] = None
                => \A k \in DOMAIN heap'[tick.session].pending_orders :
                      heap'[tick.session].pending_orders[k].coin # c

\* C27: when the monitor liquidates a position, margin_used decreases by
\* exactly that position's margin, the position is removed, cash is
\* unchanged, the other positions are kept as they are (but for the price and
\* pnl of the valuation), and every pending order on that coin is removed by
\* the end of the same monitor pass
C27_LiquidationEffect ==
    [][LiquidationFrame /\ LiquidatedOrdersGone]_vars

IsClose(t) == ActionOf(t).action \in {"CLOSE_LONG", "CLOSE_SHORT"}

\* the step is the start of the handler of a CLOSE action of task t on a
\* coin that has no futures position of the side of the action
CloseUnmatched(t) ==
    /\ running = t /\ tasks[t].pc = "handler" /\ IsClose(t)
    /\ CloseRejected(heap[tasks[t].session], ActionOf(t).coin, Side(ActionOf(t).action))

\* the step is the rest of the handler of a CLOSE action of task t, which
\* found a position of its side before it awaited the price
CloseMatched(t) ==
    tasks[t].pc = "price" /\ IsClose(t) /\ tasks'[t].pc # "price"

\* the close of task t succeeds and credits margin + pnl at the closing price
\* (the fetched price, or the position's current price when the fetch
\* fails), releases the margin and removes the position, and nothing else
CloseEffect(t) ==
    LET old == heap[tasks[t].session]
        coin == ActionOf(t).coin
        pos == tasks[t].pos
    IN  /\ tasks'[t].pc = "validate"
        /\ \E fetched \in PriceResults :
             LET price == IF fetched = None THEN pos.current_price ELSE fetched
             IN  heap'[tasks[t].session] =
                    [old EXCEPT
                        !.cash = QAdd(@, QAdd(pos.margin, calculate_futures_pnl(pos, price))),
                        !.margin_used = QSub(@, pos.margin),
                        !.futures_positions[coin] = None]

CloseRejectedUnchanged ==
    \A t \in DOMAIN tasks :
        CloseUnmatched(t) => /\ tasks'[t].pc = "rolled_back"
                             /\ heap'[tasks[t].session] = heap[tasks[t].session]

\* C28: a CLOSE_LONG / CLOSE_SHORT on a coin without a futures position of
\* that side is rejected and leaves the portfolio it was applied to as it
\* was; one that found such a position succeeds, adds margin + pnl at the
\* closing price to cash, takes the margin from margin_used, removes the
\* position and changes nothing else
C28_CloseEffect ==
    [][/\ CloseRejectedUnchanged
       /\ \A t \in DOMAIN tasks : CloseMatched(t) => CloseEffect(t)]_vars

\* C29: when a validated ADD_MARGIN executes on a portfolio whose margin
\* usage is at most 25%, in a plan that started at most at 25%, margin_used
\* after it is still at most 25% of the portfolio's total funds
C29_AddMarginCeiling ==
    [][\A t \in DOMAIN tasks :
        /\ HandlerSucceeded(t)
        /\ ActionOf(t).action = "ADD_MARGIN"
        /\ QLe(MarginUsage(tasks[t].before), MarginCeiling)
        /\ QLe(MarginUsage(heap[tasks[t].session]), MarginCeiling)
        => QLe(MarginUsage(heap'[tasks[t].session]), MarginCeiling)]_vars

IsReduce(t) == ActionOf(t).action = "REDUCE_MARGIN"

\* the withdrawal of task t, as _handle_reduce_margin computes it from the
\* position pos
Withdrawn(t, pos) == QMul(pos.margin, QDiv(ActionOf(t).percentage_of_margin, Hundred))

\* the conditions and the effect of a successful REDUCE_MARGIN of task t on
\* the position pos at price
ReduceAt(t, pos, price) ==
    LET old == heap[tasks[t].session]
        new == heap'[tasks[t].session]
        coin == ActionOf(t).coin
        pnl == calculate_futures_pnl(pos, price)
        amount == Withdrawn(t, pos)
    IN  /\ QLt(Zero, pnl)
        /\ QLe(amount, pnl)
        /\ QLe(calculate_maintenance_margin(pos, price), QSub(pos.margin, amount))
        /\ new.cash = QAdd(old.cash, amount)
        /\ new.margin_used = QSub(old.margin_used, amount)
        /\ new.futures_positions[coin] # None
        /\ new.futures_positions[coin].margin = QSub(pos.margin, amount)

\* a REDUCE_MARGIN that succeeds does so on the position of the portfolio,
\* at the price it fetched or else at the position's current price
ReduceSucceedsAsStated(t) ==
    tasks[t].pc = "price" /\ IsReduce(t) /\ tasks'[t].pc = "validate"
    => LET pos == heap[tasks[t].session].futures_positions[ActionOf(t).coin]
       IN  /\ pos # None
           /\ \E price \in PriceSet \cup ({pos.current_price} \ {None}) :
                 ReduceAt(t, pos, price)

\* a REDUCE_MARGIN that is rejected, before or after the price arrived,
\* leaves the portfolio it was applied to as it was
ReduceRejectedUnchanged(t) ==
    tasks[t].pc \in {"handler", "price"} /\ IsReduce(t) /\ tasks'[t].pc = "rolled_back"
    => heap'[tasks[t].session] = heap[tasks[t].session]

\* C30: REDUCE_MARGIN succeeds only if the position's pnl at the current
\* price is positive, the withdrawn amount is at most that pnl and the
\* remaining margin is at least the maintenance margin at that price; on
\* success cash increases and the position's margin and margin_used decrease
\* by exactly the withdrawn amount; on rejection the portfolio is unchanged
C30_ReduceMargin ==
    [][\A t \in DOMAIN tasks :
        ReduceSucceedsAsStated(t) /\ ReduceRejectedUnchanged(t)]_vars

IsLeverageChange(t) ==
    ActionOf(t).action \in {"INCREASE_LEVERAGE", "DECREASE_LEVERAGE"}

\* the step is the successful end of an INCREASE_LEVERAGE or
\* DECREASE_LEVERAGE of task t
LeverageChanged(t) ==
    tasks[t].pc = "price" /\ IsLeverageChange(t) /\ tasks'[t].pc = "validate"

\* the position the handler of task t works on when it resumes
Target(t) ==
    Deref(heap[tasks[t].session].futures_positions, ActionOf(t).coin, tasks[t].pos)

\* the leverage moves in the direction of the action
LeverageMoves(t) ==
    IF ActionOf(t).action = "INCREASE_LEVERAGE"
    THEN QLt(Target(t).leverage, ActionOf(t).new_leverage)
    ELSE QLt(ActionOf(t).new_leverage, Target(t).leverage)

LeverageInRange(t) ==
    QLe(One, ActionOf(t).new_leverage) /\ QLe(ActionOf(t).new_leverage, Hundred)

\* the new leverage is recorded on the position when it is still the stored
\* one, and what leaves cash enters margin_used
LeverageRecorded(t) ==
    LET old == heap[tasks[t].session]
        new == heap'[tasks[t].session]
        coin == ActionOf(t).coin
    IN  /\ IsLive(old.futures_positions, coin, tasks[t].pos)
            => /\ new.futures_positions[coin] # None
               /\ new.futures_positions[coin].leverage = ActionOf(t).new_leverage
        /\ QSub(new.cash, old.cash) = QSub(old.margin_used, new.margin_used)

\* C31: a successful INCREASE_LEVERAGE sets a leverage strictly greater than
\* the position's previous leverage, a successful DECREASE_LEVERAGE one
\* strictly smaller, in both cases within [1, 100], and the margin delta
\* moves between cash and margin_used
C31_LeverageChange ==
    [][\A t \in DOMAIN tasks :
        LeverageChanged(t) =>
            LeverageMoves(t) /\ LeverageInRange(t) /\ LeverageRecorded(t)]_vars

LeverageActions ==
    {"OPEN_LONG", "OPEN_SHORT", "ADD_MARGIN", "REDUCE_MARGIN",
     "INCREASE_LEVERAGE", "DECREASE_LEVERAGE"}

\* leverage == value / margin on the position
LeverageConsistent(pos) ==
    QLt(Zero, pos.margin) => pos.leverage = QDiv(pos.value, pos.margin)

LiquidationPriceConsistent(pos) ==
    pos.liquidation_price
        = calculate_liquidation_price(pos.entry_price, pos.leverage, pos.side)

\* C32: after every successful OPEN_LONG / OPEN_SHORT, ADD_MARGIN,
\* REDUCE_MARGIN, INCREASE_LEVERAGE and DECREASE_LEVERAGE, each futures
\* position of the portfolio has leverage == value / margin and
\* liquidation_price == calculate_liquidation_price(entry_price, leverage, side)
C32_LeverageMarginConsistency ==
    [][\A t \in DOMAIN tasks :
        HandlerSucceeded(t) /\ ActionOf(t).action \in LeverageActions
        => \A c \in Coins :
              LET pos == heap'[tasks[t].session].futures_positions[c]
              IN  pos # None => LeverageConsistent(pos) /\ LiquidationPriceConsistent(pos)]_vars

\* the step is the end of a monitor pass that ran to its last statement
PassCompletes ==
    /\ tick.pc = "orders" /\ tick'.pc = "idle"
    /\ ~DeleteTriggered(heap[tick.session].pending_orders, tick.triggered).raised

\* the price of the tick for the coin of pos, or else the price last
\* recorded on pos
TickPrice(c, pos) ==
    IF tick.prices_data[c] # None THEN tick.prices_data[c]
    ELSE IF pos.current_price # None THEN pos.current_price
    ELSE pos.entry_price

\* cash + spot holdings at their prices + margin_used + pnl of the futures
\* positions at their prices
Equity(session) ==
    QAdd(QAdd(session.cash,
              QSum([c \in Coins |->
                      IF session.spot_positions[c] = None THEN Zero
                      ELSE QMul(session.spot_positions[c].amount,
                                TickPrice(c, session.spot_positions[c]))], Coins)),
         QAdd(session.margin_used,
              QSum([c \in Coins |->
                      IF session.futures_positions[c] = None THEN Zero
                      ELSE LET pos == session.futures_positions[c]
                               diff == QSub(TickPrice(c, pos), pos.entry_price)
                           IN  QMul(IF pos.side = Long THEN diff ELSE QNeg(diff),
                                    pos.amount)], Coins)))

TickClosesAfter(t) ==
    /\ tick.pc = "close_price" /\ tick'.pc # "close_price"
    /\ tasks[t].session = tick.session
    /\ tasks[t].applied >= 1
    /\ LET done == tasks[t].plan[tasks[t].i - 1]
       IN  /\ tasks[t].pc \in {"validate", "handler", "price", "done"}
           /\ done.action \in {"CLOSE_LONG", "CLOSE_SHORT"}
           /\ done.coin = tick.orders[tick.i].coin
    /\ ~IsLive(heap[tick.session].futures_positions, tick.orders[tick.i].coin, tick.pos)

\* the step resumes the CLOSE action of task t on a position that a
\* conditional close of the running monitor pass closed while the action
\* awaited the price
TaskClosesAfter(t) ==
    /\ tasks[t].pc = "price" /\ IsClose(t) /\ tasks'[t].pc # "price"
    /\ tick.session = tasks[t].session
    /\ \E k \in tick.fired : tick.orders[k].coin = ActionOf(t).coin
    /\ ~IsLive(heap[tasks[t].session].futures_positions, ActionOf(t).coin, tasks[t].pos)

\* the step leaves cash and margin_used of portfolio o as they were
NoSecondCredit(o) ==
    /\ heap'[o].cash = heap[o].cash
    /\ heap'[o].margin_used = heap[o].margin_used

\* C34: when a conditional close of a monitor pass and a CLOSE_LONG /
\* CLOSE_SHORT of a rebalance plan work on the same futures position across
\* their awaits, the one that resumes second credits nothing to cash and
\* takes nothing from margin_used (or, for the plan, is undone as a whole by
\* the rollback of the plan)
C34_CloseOnce ==
    [][\A t \in DOMAIN tasks :
        /\ TickClosesAfter(t) => NoSecondCredit(tick.session)
        /\ TaskClosesAfter(t) => NoSecondCredit(tasks[t].session)
                                 \/ tasks'[t].pc = "rolled_back"]_vars

\* the step is the rollback of the plan of task t while the portfolio stored
\* for the user is one of a later simulation (no plan has rolled back before,
\* so the stored portfolio is the one a start command created)
RollsBackIntoOther(t) ==
    /\ tasks[t].pc # "rolled_back" /\ tasks'[t].pc = "rolled_back"
    /\ investment_sessions # 0
    /\ investment_sessions # tasks[t].session
    /\ \A u \in DOMAIN tasks : tasks[u].pc # "rolled_back"

\* C35: the rollback of a plan leaves the portfolio of a simulation that the
\* user started after finishing the plan's own as it is
C35_RollbackOwnPortfolio ==
    [][\A t \in DOMAIN tasks :
        RollsBackIntoOther(t) => /\ investment_sessions' = investment_sessions
                                 /\ heap'[investment_sessions] = heap[investment_sessions]]_vars

\* the step is the one by which a pending order fires in a monitor pass
OrderFires == tick.pc = "orders" /\ tick'.pc = "close_price"

\* C36: a pending order fires only against the futures position it was
\* created for, never against another position opened later on its coin
C36_OrderOwnPosition ==
    [][OrderFires => tick.orders[tick.i].position = tick'.pos.id]_vars

RiskActions == {"OPEN_LONG", "OPEN_SHORT", "INCREASE_LEVERAGE", "REDUCE_MARGIN"}

\* the percentages of the action are in [0,100] and its leverage or new
\* leverage in [1,100]
InValidatedRanges(action) ==
    /\ ~ParameterErrors(action)
    /\ action.action = "INCREASE_LEVERAGE"
          => QLe(One, action.new_leverage) /\ QLe(action.new_leverage, Hundred)

\* the step is the successful end of the handler of task t, with the price
\* answer fetched, and it changed the position pos it read before its await
\* (or created one)
ActsAt(t, fetched) ==
    LET o == tasks[t].session
        r == Resume(heap[o], ActionOf(t), tasks[t].pos, fetched, t, tasks[t].i)
    IN  /\ tasks[t].pc = "price" /\ tasks'[t].pc = "validate"
        /\ r.status = "ok" /\ heap'[o] = r.session /\ heap'[o] # heap[o]
        /\ \/ tasks[t].pos = None
           \/ IsLive(heap[o].futures_positions, ActionOf(t).coin, tasks[t].pos)

\* the price the handler used: the fetched one, or the one recorded on the
\* position when the handler resumed
PriceUsed(t, fetched) ==
    IF fetched # None THEN fetched
    ELSE Deref(heap[tasks[t].session].futures_positions, ActionOf(t).coin,
               tasks[t].pos).current_price

NotLiquidatableAfter(t, kinds) ==
    \A fetched \in PriceResults :
        /\ tasks[t].pc = "price"
        /\ ActionOf(t).action \in kinds
        /\ InValidatedRanges(ActionOf(t))
        /\ ActsAt(t, fetched)
        => ~check_position_risk(heap'[tasks[t].session].futures_positions[ActionOf(t).coin],
                                PriceUsed(t, fetched))

\* C37: right after a successful OPEN_LONG / OPEN_SHORT, INCREASE_LEVERAGE
\* or REDUCE_MARGIN with parameters in their validated ranges, the position
\* it acted on is not liquidatable at the price the action used
C37_NotLiquidatableAfterAction ==
    [][\A t \in DOMAIN tasks : NotLiquidatableAfter(t, RiskActions)]_vars

\* C38: the cash of the portfolio stored for the user is never negative
C38_CashNeverNegative ==
    investment_sessions # 0 => QLe(Zero, heap[investment_sessions].cash)

\* cash + the entry values of the spot positions + the margins of the
\* futures positions is the starting capital, and margin_used is the sum of
\* those margins
CapitalConserved(session) ==
    /\ QAdd(session.cash,
            QAdd(QSum([c \in Coins |->
                         IF session.spot_positions[c] = None THEN Zero
                         ELSE QMul(session.spot_positions[c].amount,
                                   session.spot_positions[c].entry_price)], Coins),
                 MarginSum(session))) = session.initial_funds
    /\ session.margin_used = MarginSum(session)

\* the step is the end of create_initial_positions
AllocationEnds == cmd.pc = "alloc_price" /\ cmd'.pc = "idle"

\* C39: create_initial_positions conserves the starting capital, whatever
\* the suggested allocation and the prices returned
C39_AllocationConserves ==
    [][AllocationEnds => CapitalConserved(heap'[cmd.session])]_vars

====
